---- MODULE Spec2Model ----
(***************************************************************************)
(* Model of the one-click-routine task store (src/src/store.ts) and of the *)
(* dashboard handlers that drive it (src/src/components/Dashboard.tsx).    *)
(*                                                                         *)
(* Time.  Timestamps are JavaScript millisecond timestamps sampled on a    *)
(* grid of TicksPerDay instants per day: the value t stands for the        *)
(* timestamp t * (86400000 / TicksPerDay) ms.  Equality and order of       *)
(* sampled timestamps are the equality and order of the real ones.         *)
(*                                                                         *)
(* Optional values (undefined / null) are sequences of length 0 or 1.      *)
(***************************************************************************)
EXTENDS Integers, Sequences, FiniteSets, TLC

\* ------------------------------------------------------------------ bounds
\* 1000 * 60 * 60 * 24 ms, expressed in clock samples
TicksPerDay == 2
\* epoch day of the first modelled instant: 2024-12-31, so that the modelled
\* days cross a month and a year boundary
StartDay == 20088
\* number of clock samples that pass in Spec and in SpecDays
MaxTicks == 1
MaxDayTicks == 8
\* largest number of tasks in the list
MaxTasks == 2
\* largest intervalDays / initialDaysOffset typed into the form
MaxInterval == 2
MaxOffset == 1

Null == <<>>
Some(v) == <<v>>

\* ------------------------------------------------- Date (library semantics)
\* Date.prototype.toISOString().split('T')[0]: the UTC calendar date
\* <<year, month, day>> of an epoch day number
CivilFromDays(z0) ==
  LET z   == z0 + 719468
      era == z \div 146097
      doe == z - era * 146097
      yoe == (doe - doe \div 1460 + doe \div 36524 - doe \div 146096) \div 365
      doy == doe - (365 * yoe + yoe \div 4 - yoe \div 100)
      mp  == (5 * doy + 2) \div 153
      d   == doy - (153 * mp + 2) \div 5 + 1
      m   == IF mp < 10 THEN mp + 3 ELSE mp - 9
      y   == yoe + era * 400 + (IF m <= 2 THEN 1 ELSE 0)
  IN  <<y, m, d>>

\* new Date('YYYY-MM-DD'): the epoch day number of a calendar date (a
\* date-only ISO string is parsed as UTC midnight)
DaysFromCivil(date) ==
  LET m   == date[2]
      d   == date[3]
      y   == IF m <= 2 THEN date[1] - 1 ELSE date[1]
      era == y \div 400
      yoe == y - era * 400
      doy == (153 * (IF m > 2 THEN m - 3 ELSE m + 9) + 2) \div 5 + d - 1
      doe == yoe * 365 + yoe \div 4 - yoe \div 100 + doy
  IN  era * 146097 + doe - 719468

\* ------------------------------------------------------------ store.ts
\* store.ts getDateString, with the clock reading passed in
getDateString(clock) == CivilFromDays(clock \div TicksPerDay)

timestampToDateString(timestamp) == CivilFromDays(timestamp \div TicksPerDay)

daysBetween(date1, date2) ==
  LET d1 == DaysFromCivil(date1) * TicksPerDay
      d2 == DaysFromCivil(date2) * TicksPerDay
      diffTime == d2 - d1
  IN  diffTime \div TicksPerDay

\* task.createdAt || task.lastCompleted
createdAtOf(task) ==
  IF task.createdAt = Null \/ task.createdAt[1] = 0
  THEN task.lastCompleted
  ELSE task.createdAt[1]

isFirstCycle(task) == task.lastCompleted = createdAtOf(task)

\* a faulty variant: the first cycle counts down from intervalDays, whatever
\* initialDaysOffset says
getDaysRemainingNoOffset(task, clock) ==
  LET today == getDateString(clock)
      lastCompletedDate == timestampToDateString(task.lastCompleted)
      createdAtDate == timestampToDateString(createdAtOf(task))
  IN  IF isFirstCycle(task)
      THEN task.intervalDays - daysBetween(createdAtDate, today)
      ELSE task.intervalDays - daysBetween(lastCompletedDate, today)

\* a faulty variant: the steady state counts from the day of creation
getDaysRemainingFromCreation(task, clock) ==
  LET today == getDateString(clock)
      createdAtDate == timestampToDateString(createdAtOf(task))
  IN  IF isFirstCycle(task)
      THEN (IF task.initialDaysOffset = Null THEN task.intervalDays
            ELSE task.initialDaysOffset[1])
           - daysBetween(createdAtDate, today)
      ELSE task.intervalDays - daysBetween(createdAtDate, today)

getDaysRemaining(task, clock) ==
  LET today == getDateString(clock)
      lastCompletedDate == timestampToDateString(task.lastCompleted)
      createdAtDate == timestampToDateString(createdAtOf(task))
  IN  IF isFirstCycle(task)
      THEN LET initialOffset == IF task.initialDaysOffset = Null
                                THEN task.intervalDays
                                ELSE task.initialDaysOffset[1]
               daysElapsed == daysBetween(createdAtDate, today)
           IN  initialOffset - daysElapsed
      ELSE LET daysElapsed == daysBetween(lastCompletedDate, today)
           IN  task.intervalDays - daysElapsed

\* new Date(); setHours(0, 0, 0, 0): the local calendar date of a clock
\* reading, for a zone whose local time is UTC + zone
localDate(clock, zone) == CivilFromDays((clock + zone) \div TicksPerDay)

\* Date.prototype.setDate(getDate() + n): calendar date n days later
addDays(date, n) == CivilFromDays(DaysFromCivil(date) + n)

\* a faulty variant: no test for a task that is already due
getDueDateAtNoClamp(task, clockToday, clockRemaining, zone) ==
  addDays(localDate(clockToday, zone),
          getDaysRemaining(task, clockRemaining))

\* getDueDate reads the clock twice: once for `today`, once inside
\* getDaysRemaining
getDueDateAt(task, clockToday, clockRemaining, zone) ==
  LET today == localDate(clockToday, zone)
      daysRemaining == getDaysRemaining(task, clockRemaining)
  IN  IF daysRemaining <= 0 THEN today ELSE addDays(today, daysRemaining)

getDueDate(task, clock, zone) == getDueDateAt(task, clock, clock, zone)

getDaysOverdue(task, clock) ==
  LET today == getDateString(clock)
      lastCompletedDate == timestampToDateString(task.lastCompleted)
  IN  daysBetween(lastCompletedDate, today) - task.intervalDays

\* ------------------------------------------------------------------ state
VARIABLES
  tasks,             \* store.ts `tasks` signal: the in-memory task list
  stored,            \* localStorage[STORAGE_KEY], parsed
  currentDate,       \* store.ts `currentDate` signal
  now,               \* the wall clock (Date.now())
  tz,                \* offset of the user's local time from UTC, in samples
  undoTaskId,        \* Dashboard state
  undoPreviousTime,  \* Dashboard state
  undoTimeout,       \* Dashboard state: id of the timer last started
  timers,            \* ids of the window.setTimeout timers still pending
  clipboard,         \* the link handleCopyMagicLink wrote to the clipboard
  peerImport,        \* what importTasksFromLink returned in a second
                     \* browser, with an empty store, that opened the link
  render,            \* the render pass of the dashboard: where it is and
                     \* what it has computed for the cards so far
  display            \* a count of days put into words: the language, the
                     \* count, the formatter applied and its text

vars == <<tasks, stored, currentDate, now, tz,
          undoTaskId, undoPreviousTime, undoTimeout, timers,
          clipboard, peerImport, render, display>>

\* ids and names are strings, modelled as sequences of code points
IdPool == {<<97>>, <<98>>, <<99>>}
\* text typed into the name field: empty, blank, "a", " b"
FormNames == {<<>>, <<32>>, <<97>>, <<32, 98>>}
TZOffsets == {-1, 0, 1}
StartTick == StartDay * TicksPerDay
\* the first modelled instant: the last sample of StartDay
FirstTick == StartTick + TicksPerDay - 1
\* furthest the adjust buttons move lastCompleted out of the modelled window
MaxShiftDays == 1

Range(s) == {s[i] : i \in DOMAIN s}
SeqMap(Op(_), s) == [i \in DOMAIN s |-> Op(s[i])]
SelectIds(ts) == {ts[i].id : i \in DOMAIN ts}

\* String.prototype.trim on a sequence of code points (32 = space)
RECURSIVE trimStart(_)
trimStart(s) ==
  IF s # <<>> /\ Head(s) = 32 THEN trimStart(Tail(s)) ELSE s
RECURSIVE trimEnd(_)
trimEnd(s) ==
  IF s # <<>> /\ s[Len(s)] = 32 THEN trimEnd(SubSeq(s, 1, Len(s) - 1)) ELSE s
trim(s) == trimEnd(trimStart(s))

\* Array.prototype.findIndex: 0-based index of the first match, -1 if none
findIndex(ts, id) ==
  IF \E i \in DOMAIN ts : ts[i].id = id
  THEN (CHOOSE i \in DOMAIN ts :
          ts[i].id = id /\ \A j \in 1..(i - 1) : ts[j].id # id) - 1
  ELSE -1

\* -------------------------------------------------- store.ts operations
\* each returns the list that is assigned to tasks.value and saved
\* a faulty variant: an offset of 0 is taken for a missing one (|| for ??)
addTaskOffsetOr(ts, id, name, intervalDays, initialDaysOffset, clock) ==
  Append(ts, [id |-> id,
              name |-> name,
              intervalDays |-> intervalDays,
              lastCompleted |-> clock,
              createdAt |-> Some(clock),
              initialDaysOffset |->
                IF initialDaysOffset = Null \/ initialDaysOffset = Some(0)
                THEN Some(intervalDays)
                ELSE initialDaysOffset])

addTask(ts, id, name, intervalDays, initialDaysOffset, clock) ==
  Append(ts, [id |-> id,
              name |-> name,
              intervalDays |-> intervalDays,
              lastCompleted |-> clock,
              createdAt |-> Some(clock),
              initialDaysOffset |->
                IF initialDaysOffset = Null THEN Some(intervalDays)
                ELSE initialDaysOffset])

deleteTask(ts, id) == SelectSeq(ts, LAMBDA t : t.id # id)

swap(ts, i, j) ==
  [k \in DOMAIN ts |-> IF k = i THEN ts[j] ELSE IF k = j THEN ts[i] ELSE ts[k]]

\* the list after moveTaskUp; unchanged when index <= 0
\* a faulty variant: the task is moved to the head of the list
moveTaskUpToTop(ts, id) ==
  LET index == findIndex(ts, id)
  IN  IF index > 0 THEN swap(ts, 1, index + 1) ELSE ts

moveTaskUp(ts, id) ==
  LET index == findIndex(ts, id)
  IN  IF index > 0 THEN swap(ts, index, index + 1) ELSE ts

\* a faulty variant: the task is copied over its neighbour
moveTaskDownCopies(ts, id) ==
  LET index == findIndex(ts, id)
  IN  IF index >= 0 /\ index < Len(ts) - 1
      THEN [ts EXCEPT ![index + 2] = ts[index + 1]] ELSE ts

moveTaskDown(ts, id) ==
  LET index == findIndex(ts, id)
  IN  IF index >= 0 /\ index < Len(ts) - 1
      THEN swap(ts, index + 1, index + 2) ELSE ts

\* a faulty variant: the completion also restarts the task's first cycle
completeTaskRestart(ts, id, clock) ==
  [i \in DOMAIN ts |->
     IF ts[i].id = id
     THEN [ts[i] EXCEPT !.lastCompleted = clock, !.createdAt = Some(clock)]
     ELSE ts[i]]

\* a faulty variant: the completion does not look at the id
completeTaskEvery(ts, id, clock) ==
  [i \in DOMAIN ts |-> [ts[i] EXCEPT !.lastCompleted = clock]]

completeTask(ts, id, clock) ==
  [i \in DOMAIN ts |->
     IF ts[i].id = id THEN [ts[i] EXCEPT !.lastCompleted = clock] ELSE ts[i]]

\* ------------------------------------------------- share link: text layers
\* Text is a sequence of Unicode code points; bytes are 0..255.
\* concatenation of a sequence of sequences (by halves)
RECURSIVE Flatten(_)
Flatten(ss) ==
  IF Len(ss) = 0 THEN <<>>
  ELSE IF Len(ss) = 1 THEN ss[1]
  ELSE LET h == Len(ss) \div 2
       IN  Flatten(SubSeq(ss, 1, h)) \o Flatten(SubSeq(ss, h + 1, Len(ss)))

\* TextEncoder.encode: UTF-8 bytes of one code point
utf8Bytes(cp) ==
  IF cp < 128 THEN <<cp>>
  ELSE IF cp < 2048 THEN <<192 + (cp \div 64), 128 + (cp % 64)>>
  ELSE IF cp < 65536
       THEN <<224 + (cp \div 4096), 128 + ((cp \div 64) % 64), 128 + (cp % 64)>>
  ELSE <<240 + (cp \div 262144), 128 + ((cp \div 4096) % 64),
         128 + ((cp \div 64) % 64), 128 + (cp % 64)>>

textEncode(str) == Flatten([i \in DOMAIN str |-> utf8Bytes(str[i])])

isCont(bytes, i) == i <= Len(bytes) /\ bytes[i] >= 128 /\ bytes[i] < 192

\* number of bytes of the well-formed UTF-8 sequence that starts at i, 0 if
\* none starts there
utf8Len(bytes, i) ==
  LET b == bytes[i]
  IN  IF b < 128 THEN 1
      ELSE IF b >= 194 /\ b < 224 /\ isCont(bytes, i + 1) THEN 2
      ELSE IF b >= 224 /\ b < 240 /\ isCont(bytes, i + 1)
              /\ isCont(bytes, i + 2) THEN 3
      ELSE IF b >= 240 /\ b < 245 /\ isCont(bytes, i + 1)
              /\ isCont(bytes, i + 2) /\ isCont(bytes, i + 3) THEN 4
      ELSE 0

utf8CodePoint(bytes, i) ==
  LET b == bytes[i]
      k == utf8Len(bytes, i)
  IN  IF k = 1 THEN b
      ELSE IF k = 2 THEN (b - 192) * 64 + (bytes[i + 1] - 128)
      ELSE IF k = 3
      THEN (b - 224) * 4096 + (bytes[i + 1] - 128) * 64 + (bytes[i + 2] - 128)
      ELSE IF k = 4
      THEN (b - 240) * 262144 + (bytes[i + 1] - 128) * 4096
           + (bytes[i + 2] - 128) * 64 + (bytes[i + 3] - 128)
      ELSE 65533

\* TextDecoder.decode (non-fatal): a byte that is not part of a well-formed
\* sequence decodes to U+FFFD
textDecode(bytes) ==
  LET consumed(j) == \E i \in (j - 3)..(j - 1) :
                       i >= 1 /\ utf8Len(bytes, i) > j - i
      starts == SelectSeq([j \in DOMAIN bytes |-> j],
                          LAMBDA j : ~consumed(j))
  IN  [n \in DOMAIN starts |-> utf8CodePoint(bytes, starts[n])]

\* the base64 alphabet: A-Z a-z 0-9 + /
b64Char(v) ==
  IF v < 26 THEN 65 + v
  ELSE IF v < 52 THEN 97 + (v - 26)
  ELSE IF v < 62 THEN 48 + (v - 52)
  ELSE IF v = 62 THEN 43 ELSE 47

\* value of a base64 character, -1 when it is not in the alphabet
b64Value(c) ==
  IF c >= 65 /\ c <= 90 THEN c - 65
  ELSE IF c >= 97 /\ c <= 122 THEN c - 97 + 26
  ELSE IF c >= 48 /\ c <= 57 THEN c - 48 + 52
  ELSE IF c = 43 THEN 62
  ELSE IF c = 47 THEN 63 ELSE -1

\* btoa: standard base64 with "=" padding (61)
btoaGroup(bytes, i) ==
  LET n == Len(bytes) - i + 1
  IN  IF n = 1
      THEN <<b64Char(bytes[i] \div 4), b64Char((bytes[i] % 4) * 16), 61, 61>>
      ELSE IF n = 2
      THEN <<b64Char(bytes[i] \div 4),
             b64Char((bytes[i] % 4) * 16 + (bytes[i + 1] \div 16)),
             b64Char((bytes[i + 1] % 16) * 4), 61>>
      ELSE <<b64Char(bytes[i] \div 4),
             b64Char((bytes[i] % 4) * 16 + (bytes[i + 1] \div 16)),
             b64Char((bytes[i + 1] % 16) * 4 + (bytes[i + 2] \div 64)),
             b64Char(bytes[i + 2] % 64)>>

btoa(bytes) ==
  Flatten([g \in 1..((Len(bytes) + 2) \div 3) |-> btoaGroup(bytes, 3 * g - 2)])

isAsciiSpace(c) == c \in {9, 10, 12, 13, 32}

atobGroup(data, i) ==
  LET n == Len(data) - i + 1
      v(k) == b64Value(data[i + k])
  IN  IF n = 2 THEN <<v(0) * 4 + (v(1) \div 16)>>
      ELSE IF n = 3
      THEN <<v(0) * 4 + (v(1) \div 16), (v(1) % 16) * 16 + (v(2) \div 4)>>
      ELSE <<v(0) * 4 + (v(1) \div 16), (v(1) % 16) * 16 + (v(2) \div 4),
             (v(2) % 4) * 64 + v(3)>>

atobBytes(data) ==
  Flatten([g \in 1..((Len(data) + 3) \div 4) |-> atobGroup(data, 4 * g - 3)])

\* atob (forgiving-base64 decode): [ok, bytes]; ok = FALSE when it throws
atob(input) ==
  LET noSpace == SelectSeq(input, LAMBDA c : ~isAsciiSpace(c))
      n0 == Len(noSpace)
      data == IF n0 % 4 = 0 /\ n0 >= 2 /\ noSpace[n0] = 61 /\ noSpace[n0 - 1] = 61
              THEN SubSeq(noSpace, 1, n0 - 2)
              ELSE IF n0 % 4 = 0 /\ n0 >= 1 /\ noSpace[n0] = 61
              THEN SubSeq(noSpace, 1, n0 - 1)
              ELSE noSpace
  IN  IF Len(data) % 4 = 1 \/ \E k \in DOMAIN data : b64Value(data[k]) = -1
      THEN [ok |-> FALSE, bytes |-> <<>>]
      ELSE [ok |-> TRUE, bytes |-> atobBytes(data)]

\* String.prototype.replace(/x/g, y) for single characters
replaceAll(str, from, to) ==
  [i \in DOMAIN str |-> IF str[i] = from THEN to ELSE str[i]]

\* a faulty variant: standard base64, not the URL-safe alphabet
encodeUnicodeToBase64Plain(str) ==
  SelectSeq(btoa(textEncode(str)), LAMBDA c : c # 61)

encodeUnicodeToBase64(str) ==
  LET bytes == textEncode(str)
      base64 == btoa(bytes)
      dashed == replaceAll(replaceAll(base64, 43, 45), 47, 95)
  IN  SelectSeq(dashed, LAMBDA c : c # 61)

RECURSIVE padTo4(_)
padTo4(str) == IF Len(str) % 4 # 0 THEN padTo4(Append(str, 61)) ELSE str

\* [ok, str]; ok = FALSE when atob throws
decodeUnicodeFromBase64(base64) ==
  LET standardBase64 == padTo4(replaceAll(replaceAll(base64, 45, 43), 95, 47))
      binary == atob(standardBase64)
  IN  IF binary.ok
      THEN [ok |-> TRUE, str |-> textDecode(binary.bytes)]
      ELSE [ok |-> FALSE, str |-> <<>>]

\* ------------------------------------------------------ share link: JSON
\* JSON values: [t |-> "num", n], [t |-> "str", s], [t |-> "arr", a],
\* [t |-> "obj", m] with m a sequence of [k, v] members, [t |-> "lit", l].
KeyId == <<105, 100>>
KeyName == <<110, 97, 109, 101>>
KeyIntervalDays == <<105, 110, 116, 101, 114, 118, 97, 108, 68, 97, 121, 115>>
KeyLastCompleted == <<108, 97, 115, 116, 67, 111, 109, 112, 108, 101, 116, 101, 100>>
KeyCreatedAt == <<99, 114, 101, 97, 116, 101, 100, 65, 116>>
KeyInitialDaysOffset ==
  <<105, 110, 105, 116, 105, 97, 108, 68, 97, 121, 115, 79, 102, 102, 115, 101, 116>>

RECURSIVE digitsOf(_)
digitsOf(n) ==
  IF n < 10 THEN <<48 + n>> ELSE Append(digitsOf(n \div 10), 48 + (n % 10))

\* JSON.stringify of an integer
jsonNumber(n) == IF n < 0 THEN <<45>> \o digitsOf(-n) ELSE digitsOf(n)

\* JSON.stringify of a string: quotes, with " and \ escaped
jsonString(str) ==
  <<34>> \o Flatten([i \in DOMAIN str |->
                       IF str[i] = 34 THEN <<92, 34>>
                       ELSE IF str[i] = 92 THEN <<92, 92>>
                       ELSE <<str[i]>>]) \o <<34>>

RECURSIVE joinComma(_)
joinComma(parts) ==
  IF parts = <<>> THEN <<>>
  ELSE IF Len(parts) = 1 THEN parts[1]
  ELSE parts[1] \o <<44>> \o joinComma(Tail(parts))

jsonMember(key, valueText) == jsonString(key) \o <<58>> \o valueText

\* JSON.stringify of one ShareableTask: a property whose value is undefined
\* is left out
stringifyTask(t) ==
  <<123>> \o
  joinComma(
    << jsonMember(KeyId, jsonString(t.id)),
       jsonMember(KeyName, jsonString(t.name)),
       jsonMember(KeyIntervalDays, jsonNumber(t.intervalDays)),
       jsonMember(KeyLastCompleted, jsonNumber(t.lastCompleted)) >>
    \o (IF t.createdAt = Null THEN <<>>
        ELSE <<jsonMember(KeyCreatedAt, jsonNumber(t.createdAt[1]))>>)
    \o (IF t.initialDaysOffset = Null THEN <<>>
        ELSE <<jsonMember(KeyInitialDaysOffset,
                          jsonNumber(t.initialDaysOffset[1]))>>))
  \o <<125>>

\* JSON.stringify(shareableTasks)
stringify(ts) ==
  <<91>> \o joinComma([i \in DOMAIN ts |-> stringifyTask(ts[i])]) \o <<93>>

ParseFail == [ok |-> FALSE, v |-> [t |-> "lit", l |-> "undefined"], i |-> 0]
ParseOk(v, i) == [ok |-> TRUE, v |-> v, i |-> i]

isJsonSpace(c) == c \in {9, 10, 13, 32}
isDigit(c) == c >= 48 /\ c <= 57

RECURSIVE skipSpace(_, _)
skipSpace(text, i) ==
  IF i <= Len(text) /\ isJsonSpace(text[i]) THEN skipSpace(text, i + 1) ELSE i

startsWith(text, i, word) ==
  /\ i + Len(word) - 1 <= Len(text)
  /\ SubSeq(text, i, i + Len(word) - 1) = word

\* digits from position i on: [n, i] after the last digit
RECURSIVE parseDigits(_, _, _)
parseDigits(text, i, acc) ==
  IF i <= Len(text) /\ isDigit(text[i])
  THEN parseDigits(text, i + 1, acc * 10 + (text[i] - 48))
  ELSE [n |-> acc, i |-> i]

\* a JSON integer (the model's payloads hold no fractions or exponents)
parseNumber(text, i) ==
  LET neg == text[i] = 45
      j == IF neg THEN i + 1 ELSE i
  IN  IF j > Len(text) \/ ~isDigit(text[j]) THEN ParseFail
      ELSE IF text[j] = 48 /\ j + 1 <= Len(text) /\ isDigit(text[j + 1])
      THEN ParseFail
      ELSE LET r == parseDigits(text, j, 0)
           IN  IF r.i <= Len(text) /\ text[r.i] \in {46, 69, 101}
               THEN ParseFail
               ELSE ParseOk([t |-> "num", n |-> IF neg THEN -r.n ELSE r.n],
                            r.i)

\* the body of a JSON string, i just after the opening quote
RECURSIVE parseStringBody(_, _, _)
parseStringBody(text, i, acc) ==
  IF i > Len(text) THEN ParseFail
  ELSE IF text[i] = 34 THEN ParseOk([t |-> "str", s |-> acc], i + 1)
  ELSE IF text[i] < 32 THEN ParseFail
  ELSE IF text[i] = 92
  THEN IF i + 1 > Len(text) THEN ParseFail
       ELSE LET e == text[i + 1]
                c == IF e \in {34, 92, 47} THEN e
                     ELSE IF e = 98 THEN 8
                     ELSE IF e = 102 THEN 12
                     ELSE IF e = 110 THEN 10
                     ELSE IF e = 114 THEN 13
                     ELSE IF e = 116 THEN 9 ELSE -1
            IN  IF c = -1 THEN ParseFail
                ELSE parseStringBody(text, i + 2, Append(acc, c))
  ELSE parseStringBody(text, i + 1, Append(acc, text[i]))

RECURSIVE parseValue(_, _)
RECURSIVE parseElements(_, _, _)
RECURSIVE parseMembers(_, _, _)

\* elements of an array, i at the first element
parseElements(text, i, acc) ==
  LET r == parseValue(text, i)
  IN  IF ~r.ok THEN ParseFail
      ELSE LET j == skipSpace(text, r.i)
           IN  IF j > Len(text) THEN ParseFail
               ELSE IF text[j] = 93
               THEN ParseOk([t |-> "arr", a |-> Append(acc, r.v)], j + 1)
               ELSE IF text[j] = 44
               THEN parseElements(text, j + 1, Append(acc, r.v))
               ELSE ParseFail

\* members of an object, i at the first key
parseMembers(text, i, acc) ==
  LET k0 == skipSpace(text, i)
  IN  IF k0 > Len(text) \/ text[k0] # 34 THEN ParseFail
      ELSE LET k == parseStringBody(text, k0 + 1, <<>>)
           IN  IF ~k.ok THEN ParseFail
               ELSE LET c == skipSpace(text, k.i)
                    IN  IF c > Len(text) \/ text[c] # 58 THEN ParseFail
                        ELSE LET r == parseValue(text, c + 1)
                                 m == [k |-> k.v.s, v |-> r.v]
                                 j == skipSpace(text, r.i)
                             IN  IF ~r.ok \/ j > Len(text) THEN ParseFail
                                 ELSE IF text[j] = 125
                                 THEN ParseOk([t |-> "obj",
                                               m |-> Append(acc, m)], j + 1)
                                 ELSE IF text[j] = 44
                                 THEN parseMembers(text, j + 1,
                                                   Append(acc, m))
                                 ELSE ParseFail

parseValue(text, i0) ==
  LET i == skipSpace(text, i0)
  IN  IF i > Len(text) THEN ParseFail
      ELSE IF text[i] = 91
      THEN LET j == skipSpace(text, i + 1)
           IN  IF j <= Len(text) /\ text[j] = 93
               THEN ParseOk([t |-> "arr", a |-> <<>>], j + 1)
               ELSE parseElements(text, j, <<>>)
      ELSE IF text[i] = 123
      THEN LET j == skipSpace(text, i + 1)
           IN  IF j <= Len(text) /\ text[j] = 125
               THEN ParseOk([t |-> "obj", m |-> <<>>], j + 1)
               ELSE parseMembers(text, j, <<>>)
      ELSE IF text[i] = 34 THEN parseStringBody(text, i + 1, <<>>)
      ELSE IF text[i] = 45 \/ isDigit(text[i]) THEN parseNumber(text, i)
      ELSE IF startsWith(text, i, <<110, 117, 108, 108>>)
      THEN ParseOk([t |-> "lit", l |-> "null"], i + 4)
      ELSE IF startsWith(text, i, <<116, 114, 117, 101>>)
      THEN ParseOk([t |-> "lit", l |-> "true"], i + 4)
      ELSE IF startsWith(text, i, <<102, 97, 108, 115, 101>>)
      THEN ParseOk([t |-> "lit", l |-> "false"], i + 5)
      ELSE ParseFail

\* JSON.parse: [ok, v]; ok = FALSE when it throws
jsonParse(text) ==
  LET r == parseValue(text, 1)
  IN  IF r.ok /\ skipSpace(text, r.i) = Len(text) + 1
      THEN [ok |-> TRUE, v |-> r.v]
      ELSE [ok |-> FALSE, v |-> ParseFail.v]

\* ------------------------------------------- store.ts: export and import
\* window.location.origin + window.location.pathname
CurrentUrl == <<104, 116, 116, 112, 58, 47, 47, 104, 47>>
TasksParam == <<116, 97, 115, 107, 115>>

\* the link, or the empty string for an empty list
generateMagicLink(ts) ==
  IF Len(ts) = 0 THEN <<>>
  ELSE LET json == stringify(ts)
           base64 == encodeUnicodeToBase64(json)
       IN  CurrentUrl \o <<63>> \o TasksParam \o <<61>> \o base64

\* index of the first c in str at or after i, Len(str) + 1 if none
indexOf(str, c, i) ==
  IF \E j \in i..Len(str) : str[j] = c
  THEN CHOOSE j \in i..Len(str) :
         str[j] = c /\ \A k \in i..(j - 1) : str[k] # c
  ELSE Len(str) + 1

\* new URLSearchParams(search).get(key) on the query of a link: Null, or the
\* value of the first `key=value` pair with "+" read as a space (the values
\* of the model hold no percent escapes)
RECURSIVE searchGet(_, _, _)
searchGet(link, key, i) ==
  IF i > Len(link) THEN Null
  ELSE LET stop == indexOf(link, 38, i)
           pair == SubSeq(link, i, stop - 1)
           eq == indexOf(pair, 61, 1)
           name == replaceAll(SubSeq(pair, 1, eq - 1), 43, 32)
           value == replaceAll(SubSeq(pair, eq + 1, Len(pair)), 43, 32)
       IN  IF name = key THEN Some(value) ELSE searchGet(link, key, stop + 1)

urlTasksParam(link) == searchGet(link, TasksParam, indexOf(link, 63, 1) + 1)

\* task[key] of a parsed element: Null for undefined
prop(e, key) ==
  IF e.t = "obj" /\ \E i \in DOMAIN e.m : e.m[i].k = key
  THEN LET last == CHOOSE i \in DOMAIN e.m :
                     e.m[i].k = key /\ \A j \in DOMAIN e.m :
                                          e.m[j].k = key => j <= i
       IN  Some(e.m[last].v)
  ELSE Null

\* the JavaScript value of a JSON value
jsValue(v) ==
  IF v.t = "str" THEN v.s ELSE IF v.t = "num" THEN v.n ELSE v

\* a property that may be undefined (Null)
jsField(p) == IF p = Null THEN Null ELSE jsValue(p[1])

isNullish(p) == p = Null \/ (p[1].t = "lit" /\ p[1].l = "null")

\* the Task object built from one imported element
toTask(e) ==
  [id |-> jsField(prop(e, KeyId)),
   name |-> jsField(prop(e, KeyName)),
   intervalDays |-> jsField(prop(e, KeyIntervalDays)),
   lastCompleted |-> jsField(prop(e, KeyLastCompleted)),
   createdAt |-> IF isNullish(prop(e, KeyCreatedAt)) THEN Null
                 ELSE Some(jsValue(prop(e, KeyCreatedAt)[1])),
   initialDaysOffset |->
     IF isNullish(prop(e, KeyInitialDaysOffset)) THEN Null
     ELSE Some(jsValue(prop(e, KeyInitialDaysOffset)[1]))]

\* the first half of importTasksFromLink, which does not read the store:
\* [ok, newTasks]; ok = FALSE when decoding or parsing throws or the payload
\* is not a non-empty array
decodeImported(encodedTasks) ==
  LET failed == [ok |-> FALSE, newTasks |-> <<>>]
      json == decodeUnicodeFromBase64(encodedTasks)
      importedTasks == jsonParse(json.str)
  IN  IF ~json.ok \/ ~importedTasks.ok THEN failed
      ELSE IF importedTasks.v.t # "arr" \/ Len(importedTasks.v.a) = 0
      THEN failed
      \* task.id of a null element throws a TypeError
      ELSE IF \E i \in DOMAIN importedTasks.v.a :
                importedTasks.v.a[i].t = "lit"
                  /\ importedTasks.v.a[i].l = "null"
      THEN failed
      ELSE [ok |-> TRUE,
            newTasks |-> [i \in DOMAIN importedTasks.v.a |->
                            toTask(importedTasks.v.a[i])]]

\* a faulty variant: the tasks of the link are appended whatever their ids
mergeImportedAppendAll(ts, decoded) ==
  LET unchanged == [result |-> FALSE, tasks |-> ts, saved |-> FALSE]
  IN  IF ~decoded.ok THEN unchanged
      ELSE [result |-> TRUE, tasks |-> ts \o decoded.newTasks,
            saved |-> TRUE]

\* a faulty variant: a task of the link replaces the stored task of the same
\* id
mergeImportedOverwrite(ts, decoded) ==
  LET unchanged == [result |-> FALSE, tasks |-> ts, saved |-> FALSE]
  IN  IF ~decoded.ok THEN unchanged
      ELSE LET existingIds == SelectIds(ts)
               tasksToAdd == SelectSeq(decoded.newTasks,
                                       LAMBDA t : t.id \notin existingIds)
               replaced == [i \in DOMAIN ts |->
                              IF \E j \in DOMAIN decoded.newTasks :
                                   decoded.newTasks[j].id = ts[i].id
                              THEN decoded.newTasks[
                                     CHOOSE j \in DOMAIN decoded.newTasks :
                                       decoded.newTasks[j].id = ts[i].id]
                              ELSE ts[i]]
           IN  IF Len(tasksToAdd) > 0
               THEN [result |-> TRUE, tasks |-> replaced \o tasksToAdd,
                     saved |-> TRUE]
               ELSE unchanged

\* the second half: merge with the existing tasks, dedupe by id.
\* [result, tasks, saved]: the return value, the list afterwards and whether
\* saveTasks ran
mergeImported(ts, decoded) ==
  LET unchanged == [result |-> FALSE, tasks |-> ts, saved |-> FALSE]
  IN  IF ~decoded.ok THEN unchanged
      ELSE LET existingIds == SelectIds(ts)
               tasksToAdd == SelectSeq(decoded.newTasks,
                                       LAMBDA t : t.id \notin existingIds)
           IN  IF Len(tasksToAdd) > 0
               THEN [result |-> TRUE, tasks |-> ts \o tasksToAdd,
                     saved |-> TRUE]
               ELSE unchanged

importTasksFromLink(ts, encodedTasks) ==
  mergeImported(ts, decodeImported(encodedTasks))

\* adjustTaskTime(id, deltaDays): shifts lastCompleted by whole days
adjustTaskTime(ts, id, deltaDays) ==
  [i \in DOMAIN ts |->
     IF ts[i].id = id
     THEN [ts[i] EXCEPT !.lastCompleted = @ + deltaDays * TicksPerDay]
     ELSE ts[i]]

\* ---------------------------------------------------------------- inputs
\* generateShortId: a random id of 72 bits, taken here as the least id of
\* the pool that no task of the list has
idRank(id) == id[1]
generateShortId(ts) ==
  CHOOSE id \in IdPool \ SelectIds(ts) :
    \A other \in IdPool \ SelectIds(ts) : idRank(id) <= idRank(other)

FormIntervals == 0..MaxInterval
FormOffsets == {Null} \cup {Some(k) : k \in 0..MaxOffset}

PayloadTask(id, n, k, created, last) ==
  [id |-> id, name |-> <<233>>, intervalDays |-> n, lastCompleted |-> last,
   createdAt |-> Some(created), initialDaysOffset |-> k]

\* task lists another store exported before the first modelled instant
PayloadLists ==
  { <<PayloadTask(<<97>>, 1, Some(0), FirstTick - 2, FirstTick - 2)>>,
    <<PayloadTask(<<97>>, 2, Some(1), FirstTick - 2, FirstTick - 1),
      PayloadTask(<<99>>, 1, Null, FirstTick - 3, FirstTick - 3)>>,
    <<PayloadTask(<<99>>, 2, Some(2), FirstTick - 3, FirstTick - 1)>> }

\* values of the ?tasks= parameter the page is opened with: the exported
\* lists, the empty string, text that is not base64, base64 of "[]"
LinkInputs ==
  {urlTasksParam(generateMagicLink(l))[1] : l \in PayloadLists}
  \cup {<<>>, <<33>>, encodeUnicodeToBase64(<<91, 93>>)}

\* what the first half of importTasksFromLink makes of each input
DecodedInputs == {decodeImported(encodedTasks) : encodedTasks \in LinkInputs}

\* a link whose list holds the same id twice, as an edited link or another
\* program could carry it, and what importTasksFromLink decodes from it
RepeatedIdList ==
  <<PayloadTask(<<99>>, 1, Some(0), FirstTick - 2, FirstTick - 2),
    PayloadTask(<<99>>, 2, Some(1), FirstTick - 3, FirstTick - 1)>>
RepeatedIdDecoded ==
  decodeImported(urlTasksParam(generateMagicLink(RepeatedIdList))[1])

\* a record with an empty name and an interval of 0, as another program
\* could put into a link
InvalidRecord ==
  [id |-> <<120>>, name |-> <<>>, intervalDays |-> 0,
   lastCompleted |-> FirstTick - 1, createdAt |-> Some(FirstTick - 1),
   initialDaysOffset |-> Null]

\* values of the ?tasks= parameter that carry no task list, by kind
MalformedInputs ==
  { [kind |-> "empty string", text |-> <<>>],
    [kind |-> "bad base64", text |-> <<33>>],
    [kind |-> "invalid JSON",
     text |-> encodeUnicodeToBase64(<<91, 123>>)],
    [kind |-> "non-array",
     text |-> encodeUnicodeToBase64(<<123, 125>>)],
    [kind |-> "non-array", text |-> encodeUnicodeToBase64(<<53>>)],
    [kind |-> "empty array",
     text |-> encodeUnicodeToBase64(<<91, 93>>)],
    [kind |-> "null element",
     text |-> encodeUnicodeToBase64(<<91, 110, 117, 108, 108, 93>>)],
    [kind |-> "records that are not tasks",
     text |-> encodeUnicodeToBase64(<<91, 123, 125, 93>>)],
    [kind |-> "records that are not tasks",
     text |-> encodeUnicodeToBase64(<<91, 49, 93>>)],
    [kind |-> "records that are not tasks",
     text |-> encodeUnicodeToBase64(stringify(<<InvalidRecord>>))] }

\* each of them with what the first half of importTasksFromLink makes of it
MalformedCases ==
  {[kind |-> m.kind, decoded |-> decodeImported(m.text)] :
     m \in MalformedInputs}

\* ------------------------------------------------- i18n.ts: the formatters
\* texts are sequences of code points; the words of the two languages
Space == <<32>>  \* ' '
\* the words of translations.en
EnWords ==
  [ today |-> <<116, 111, 100, 97, 121>>,  \* 'today'
    day |-> <<32, 100, 97, 121>>,  \* ' day'
    pluralS |-> <<115>>,  \* 's'
    ago |-> <<32, 97, 103, 111>>,  \* ' ago'
    week |-> <<32, 119, 101, 101, 107>>,  \* ' week'
    month |-> <<32, 109, 111, 110, 116, 104>>,  \* ' month'
    oneDay |-> <<49, 32, 100, 97, 121>>,  \* '1 day'
    days |-> <<32, 100, 97, 121, 115>>,  \* ' days'
    w |-> <<119>>,  \* 'w'
    d |-> <<100>>,  \* 'd'
    mo |-> <<109, 111>>,  \* 'mo'
    every |-> <<69, 118, 101, 114, 121, 32>> ]  \* 'Every '
\* the words of translations.ru (comments in Latin letters)
RuWords ==
  [ today |-> <<1089, 1077, 1075, 1086, 1076, 1085, 1103>>,  \* 'segodnya'
    tomorrow |-> <<1079, 1072, 1074, 1090, 1088, 1072>>,  \* 'zavtra'
    den |-> <<1076, 1077, 1085, 1100>>,  \* 'den''
    dnya |-> <<1076, 1085, 1103>>,  \* 'dnya'
    dney |-> <<1076, 1085, 1077, 1081>>,  \* 'dney'
    nedelya |-> <<1085, 1077, 1076, 1077, 1083, 1103>>,  \* 'nedelya'
    nedelyu |-> <<1085, 1077, 1076, 1077, 1083, 1102>>,  \* 'nedelyu'
    nedeli |-> <<1085, 1077, 1076, 1077, 1083, 1080>>,  \* 'nedeli'
    nedel |-> <<1085, 1077, 1076, 1077, 1083, 1100>>,  \* 'nedel''
    mesyats |-> <<1084, 1077, 1089, 1103, 1094>>,  \* 'mesyats'
    mesyatsa |-> <<1084, 1077, 1089, 1103, 1094, 1072>>,  \* 'mesyatsa'
    mesyatsev |-> <<1084, 1077, 1089, 1103, 1094, 1077, 1074>>,  \* 'mesyatsev'
    ago |-> <<32, 1085, 1072, 1079, 1072, 1076>>,  \* ' nazad'
    n |-> <<1085>>,  \* 'n (Cyrillic)'
    d |-> <<1076>>,  \* 'd (Cyrillic)'
    m |-> <<1084>>,  \* 'm (Cyrillic)'
    every |-> <<1050, 1072, 1078, 1076, 1099, 1077, 32>> ]  \* 'Kazhdye '

\* `${n}` of a template literal
toString(n) == IF n < 0 THEN <<45>> \o digitsOf(-n) ELSE digitsOf(n)

\* a faulty variant: whole weeks are written with their 0 days
en_formatDaysWithZero(days) ==
  IF days = 1 THEN EnWords.oneDay
  ELSE IF days < 7 THEN toString(days) \o EnWords.days
  ELSE toString(days \div 7) \o EnWords.w \o Space \o toString(days % 7) \o EnWords.d

\* translations.en.formatDays
en_formatDays(days) ==
  IF days = 1 THEN EnWords.oneDay
  ELSE IF days < 7 THEN toString(days) \o EnWords.days
  ELSE LET weeks == days \div 7
           remainingDays == days % 7
       IN  IF remainingDays = 0 THEN toString(weeks) \o EnWords.w
           ELSE toString(weeks) \o EnWords.w \o Space
                  \o toString(remainingDays) \o EnWords.d

\* translations.en.everyDays
en_everyDays(days) ==
  EnWords.every \o toString(days) \o EnWords.day
    \o (IF days # 1 THEN EnWords.pluralS ELSE <<>>)

\* a faulty variant: past a month, the remainder is always given in weeks
en_formatOverdueTimeWeeksOnly(daysOverdue) ==
  IF daysOverdue = 0 THEN EnWords.today
  ELSE IF daysOverdue < 7
  THEN toString(daysOverdue) \o EnWords.day
         \o (IF daysOverdue # 1 THEN EnWords.pluralS ELSE <<>>) \o EnWords.ago
  ELSE IF daysOverdue < 30
  THEN LET weeks == daysOverdue \div 7
           days == daysOverdue % 7
       IN  IF days = 0
           THEN toString(weeks) \o EnWords.week
                  \o (IF weeks # 1 THEN EnWords.pluralS ELSE <<>>) \o EnWords.ago
           ELSE toString(weeks) \o EnWords.w \o Space \o toString(days) \o EnWords.d
                  \o EnWords.ago
  ELSE LET months == daysOverdue \div 30
           remainingDays == daysOverdue % 30
           weeks == remainingDays \div 7
       IN  IF remainingDays = 0
           THEN toString(months) \o EnWords.month
                  \o (IF months # 1 THEN EnWords.pluralS ELSE <<>>) \o EnWords.ago
           ELSE toString(months) \o EnWords.mo \o Space \o toString(weeks)
                  \o EnWords.w \o EnWords.ago

\* translations.en.formatOverdueTime
en_formatOverdueTime(daysOverdue) ==
  IF daysOverdue = 0 THEN EnWords.today
  ELSE IF daysOverdue < 7
  THEN toString(daysOverdue) \o EnWords.day
         \o (IF daysOverdue # 1 THEN EnWords.pluralS ELSE <<>>) \o EnWords.ago
  ELSE IF daysOverdue < 30
  THEN LET weeks == daysOverdue \div 7
           days == daysOverdue % 7
       IN  IF days = 0
           THEN toString(weeks) \o EnWords.week
                  \o (IF weeks # 1 THEN EnWords.pluralS ELSE <<>>) \o EnWords.ago
           ELSE toString(weeks) \o EnWords.w \o Space \o toString(days) \o EnWords.d
                  \o EnWords.ago
  ELSE LET months == daysOverdue \div 30
           remainingDays == daysOverdue % 30
           weeks == remainingDays \div 7
       IN  IF remainingDays = 0
           THEN toString(months) \o EnWords.month
                  \o (IF months # 1 THEN EnWords.pluralS ELSE <<>>) \o EnWords.ago
           ELSE IF weeks = 0
           THEN toString(months) \o EnWords.mo \o Space
                  \o toString(remainingDays) \o EnWords.d \o EnWords.ago
           ELSE toString(months) \o EnWords.mo \o Space \o toString(weeks)
                  \o EnWords.w \o EnWords.ago

\* translations.ru.formatDays
ru_formatDays(days) ==
  IF days = 1 THEN RuWords.tomorrow
  ELSE IF days < 5 THEN toString(days) \o Space \o RuWords.dnya
  ELSE IF days < 7 THEN toString(days) \o Space \o RuWords.dney
  ELSE LET weeks == days \div 7
           remainingDays == days % 7
           weekWord == IF weeks % 10 = 1 THEN RuWords.nedelya
                       ELSE IF weeks % 10 < 5 THEN RuWords.nedeli ELSE RuWords.nedel
       IN  IF remainingDays = 0 THEN toString(weeks) \o Space \o weekWord
           ELSE toString(weeks) \o RuWords.n \o Space
                  \o toString(remainingDays) \o RuWords.d

\* translations.ru.everyDays
ru_everyDays(days) ==
  LET dayWord == IF days % 10 = 1 THEN RuWords.den
                 ELSE IF days % 10 < 5 THEN RuWords.dnya ELSE RuWords.dney
  IN  RuWords.every \o toString(days) \o Space \o dayWord

\* translations.ru.formatOverdueTime
ru_formatOverdueTime(daysOverdue) ==
  IF daysOverdue = 0 THEN RuWords.today
  ELSE IF daysOverdue < 7
  THEN LET dayWord == IF daysOverdue = 1 THEN RuWords.den
                      ELSE IF daysOverdue < 5 THEN RuWords.dnya ELSE RuWords.dney
       IN  toString(daysOverdue) \o Space \o dayWord \o RuWords.ago
  ELSE IF daysOverdue < 30
  THEN LET weeks == daysOverdue \div 7
           days == daysOverdue % 7
           weekWord == IF weeks % 10 = 1 THEN RuWords.nedelyu
                       ELSE IF weeks % 10 < 5 THEN RuWords.nedeli ELSE RuWords.nedel
       IN  IF days = 0
           THEN toString(weeks) \o Space \o weekWord \o RuWords.ago
           ELSE toString(weeks) \o RuWords.n \o Space \o toString(days) \o RuWords.d
                  \o RuWords.ago
  ELSE LET months == daysOverdue \div 30
           remainingDays == daysOverdue % 30
           weeks == remainingDays \div 7
           monthWord == IF months = 1 THEN RuWords.mesyats
                        ELSE IF months < 5 THEN RuWords.mesyatsa ELSE RuWords.mesyatsev
       IN  IF remainingDays = 0
           THEN toString(months) \o Space \o monthWord \o RuWords.ago
           ELSE IF weeks = 0
           THEN toString(months) \o RuWords.m \o Space
                  \o toString(remainingDays) \o RuWords.d \o RuWords.ago
           ELSE toString(months) \o RuWords.m \o Space \o toString(weeks)
                  \o RuWords.n \o RuWords.ago

\* translations[language]: the three formatters of a language
formatDays(language, days) ==
  IF language = "ru" THEN ru_formatDays(days) ELSE en_formatDays(days)
everyDays(language, days) ==
  IF language = "ru" THEN ru_everyDays(days) ELSE en_everyDays(days)
formatOverdueTime(language, daysOverdue) ==
  IF language = "ru" THEN ru_formatOverdueTime(daysOverdue)
  ELSE en_formatOverdueTime(daysOverdue)

\* nothing has been put into words
NoDisplay == [language |-> "en", days |-> 0, kind |-> "none", text |-> <<>>]

\* no render pass is running
RenderIdle == [pc |-> "idle", i |-> 0, today |-> Null, reads |-> {},
               shown |-> <<>>]

\* --------------------------------------------------------------- actions
Init ==
  /\ tasks = <<>>
  /\ stored = <<>>
  /\ tz \in TZOffsets
  /\ now = FirstTick
  /\ currentDate = getDateString(now)
  /\ undoTaskId = Null
  /\ undoPreviousTime = Null
  /\ undoTimeout = Null
  /\ timers = {}
  /\ clipboard = <<>>
  /\ peerImport = Null
  /\ render = RenderIdle
  /\ display = NoDisplay

undoVars == <<undoTaskId, undoPreviousTime, undoTimeout, timers>>
\* what the handlers of the store and of the dashboard leave alone
shareVars == <<clipboard, peerImport, render, display>>

\* the localStorage key saveTasks and loadTasks use, and the key handleUndo
\* writes to
STORAGE_KEY == "one-click-routine-tasks"
UndoStorageKey == "one-click-routine-tasks"

\* the wall clock advances by one sample
Tick(maxTicks) ==
  /\ now < FirstTick + maxTicks
  /\ now' = now + 1
  /\ UNCHANGED <<tasks, stored, currentDate, tz, undoVars, shareVars>>

\* Settings.tsx handleAddTask
HandleAddTask(maxTasks) ==
  \E taskName \in FormNames, intervalDays \in FormIntervals,
     initialDaysOffset \in FormOffsets :
    /\ Len(tasks) < maxTasks
    /\ IF trim(taskName) # <<>> /\ intervalDays > 0
       THEN /\ tasks' = addTask(tasks, generateShortId(tasks), trim(taskName),
                                intervalDays, initialDaysOffset, now)
            /\ stored' = tasks'
       ELSE UNCHANGED <<tasks, stored>>
    /\ UNCHANGED <<currentDate, now, tz, undoVars, shareVars>>

\* a faulty variant: the list without the task is not saved
HandleConfirmDeleteForgetsToSave ==
  \E id \in SelectIds(tasks) :
    /\ tasks' = deleteTask(tasks, id)
    /\ UNCHANGED <<stored, currentDate, now, tz, undoVars, shareVars>>

\* Settings.tsx handleConfirmDelete
HandleConfirmDelete ==
  \E id \in SelectIds(tasks) :
    /\ tasks' = deleteTask(tasks, id)
    /\ stored' = tasks'
    /\ UNCHANGED <<currentDate, now, tz, undoVars, shareVars>>

MoveTaskUp ==
  \E id \in SelectIds(tasks) :
    /\ tasks' = moveTaskUp(tasks, id)
    /\ stored' = IF findIndex(tasks, id) > 0 THEN tasks' ELSE stored
    /\ UNCHANGED <<currentDate, now, tz, undoVars, shareVars>>

MoveTaskDown ==
  \E id \in SelectIds(tasks) :
    /\ tasks' = moveTaskDown(tasks, id)
    /\ stored' = IF findIndex(tasks, id) >= 0
                    /\ findIndex(tasks, id) < Len(tasks) - 1
                 THEN tasks' ELSE stored
    /\ UNCHANGED <<currentDate, now, tz, undoVars, shareVars>>

\* window.setTimeout: the id of the new timer, which is not the id of a
\* timer pending when the handler began
newTimer(pending) == CHOOSE t \in 1..(Cardinality(pending) + 1) :
                       t \notin pending /\ \A u \in 1..(t - 1) : u \in pending

\* Dashboard.tsx handleUndoDismiss: the timers left pending
dismissedTimers == IF undoTimeout # Null THEN timers \ {undoTimeout[1]}
                   ELSE timers

HandleUndoDismiss ==
  /\ undoTaskId # Null
  /\ timers' = dismissedTimers
  /\ undoTaskId' = Null
  /\ undoPreviousTime' = Null
  /\ undoTimeout' = Null
  /\ UNCHANGED <<tasks, stored, currentDate, now, tz, shareVars>>

\* a faulty variant: the window of the previous completion is left running
HandleCompleteTaskKeepsTimer ==
  \E id \in SelectIds(tasks) :
    IF undoTaskId = Some(id)
    THEN /\ timers' = dismissedTimers
         /\ undoTaskId' = Null
         /\ undoPreviousTime' = Null
         /\ undoTimeout' = Null
         /\ UNCHANGED <<tasks, stored, currentDate, now, tz, shareVars>>
    ELSE LET task == tasks[findIndex(tasks, id) + 1]
             timeout == newTimer(timers)
         IN  /\ tasks' = completeTask(tasks, id, now)
             /\ stored' = tasks'
             /\ undoTaskId' = Some(id)
             /\ undoPreviousTime' = Some(task.lastCompleted)
             /\ timers' = timers \cup {timeout}
             /\ undoTimeout' = Some(timeout)
             /\ UNCHANGED <<currentDate, now, tz, shareVars>>

\* Dashboard.tsx handleCompleteTask: a click on the card of task id
\* a faulty variant: a click on the task of the pending window is a
\* completion like any other
HandleCompleteTaskAgain ==
  \E id \in SelectIds(tasks) :
    LET cleared == IF undoTaskId # Null THEN dismissedTimers ELSE timers
        task == tasks[findIndex(tasks, id) + 1]
        previousTime == task.lastCompleted
        timeout == newTimer(timers)
    IN  /\ tasks' = completeTask(tasks, id, now)
        /\ stored' = tasks'
        /\ undoTaskId' = Some(id)
        /\ undoPreviousTime' = Some(previousTime)
        /\ timers' = (IF undoTimeout # Null
                      THEN cleared \ {undoTimeout[1]} ELSE cleared)
                     \cup {timeout}
        /\ undoTimeout' = Some(timeout)
        /\ UNCHANGED <<currentDate, now, tz, shareVars>>

HandleCompleteTask ==
  \E id \in SelectIds(tasks) :
    IF undoTaskId = Some(id)
    THEN /\ timers' = dismissedTimers
         /\ undoTaskId' = Null
         /\ undoPreviousTime' = Null
         /\ undoTimeout' = Null
         /\ UNCHANGED <<tasks, stored, currentDate, now, tz, shareVars>>
    ELSE LET cleared == IF undoTaskId # Null THEN dismissedTimers ELSE timers
             task == tasks[findIndex(tasks, id) + 1]
             previousTime == task.lastCompleted
             timeout == newTimer(timers)
         IN  /\ tasks' = completeTask(tasks, id, now)
             /\ stored' = tasks'
             /\ undoTaskId' = Some(id)
             /\ undoPreviousTime' = Some(previousTime)
             /\ timers' = (IF undoTimeout # Null
                           THEN cleared \ {undoTimeout[1]} ELSE cleared)
                          \cup {timeout}
             /\ undoTimeout' = Some(timeout)
             /\ UNCHANGED <<currentDate, now, tz, shareVars>>

\* a faulty variant: the expired timer leaves the toast and its undo button
UndoTimerFiresKeepsToast ==
  \E t \in timers :
    /\ timers' = timers \ {t}
    /\ UNCHANGED <<undoTaskId, undoPreviousTime, undoTimeout>>
    /\ UNCHANGED <<tasks, stored, currentDate, now, tz, shareVars>>

\* the callback of the 3000 ms timer started by handleCompleteTask
UndoTimerFires ==
  \E t \in timers :
    /\ timers' = timers \ {t}
    /\ undoTaskId' = Null
    /\ undoPreviousTime' = Null
    /\ undoTimeout' = Null
    /\ UNCHANGED <<tasks, stored, currentDate, now, tz, shareVars>>

\* a faulty variant: the reverted list is not saved
HandleUndoForgetsToSave ==
  /\ undoTaskId # Null
  /\ IF undoTaskId[1] # <<>> /\ undoPreviousTime # Null /\ undoTimeout # Null
     THEN /\ timers' = timers \ {undoTimeout[1]}
          /\ tasks' = [i \in DOMAIN tasks |->
                         IF tasks[i].id = undoTaskId[1]
                         THEN [tasks[i] EXCEPT
                                 !.lastCompleted = undoPreviousTime[1]]
                         ELSE tasks[i]]
          /\ stored' = stored
          /\ undoTaskId' = Null
          /\ undoPreviousTime' = Null
          /\ undoTimeout' = Null
     ELSE UNCHANGED <<tasks, stored, undoVars>>
  /\ UNCHANGED <<currentDate, now, tz, shareVars>>

\* Dashboard.tsx handleUndo: a click on the undo button of the toast
\* a faulty variant: the previous time is written into every task
HandleUndoEveryTask ==
  /\ undoTaskId # Null
  /\ IF undoTaskId[1] # <<>> /\ undoPreviousTime # Null /\ undoTimeout # Null
     THEN /\ timers' = timers \ {undoTimeout[1]}
          /\ tasks' = [i \in DOMAIN tasks |->
                         [tasks[i] EXCEPT
                            !.lastCompleted = undoPreviousTime[1]]]
          /\ stored' = IF UndoStorageKey = STORAGE_KEY THEN tasks' ELSE stored
          /\ undoTaskId' = Null
          /\ undoPreviousTime' = Null
          /\ undoTimeout' = Null
     ELSE UNCHANGED <<tasks, stored, undoVars>>
  /\ UNCHANGED <<currentDate, now, tz, shareVars>>

HandleUndo ==
  /\ undoTaskId # Null
  /\ IF undoTaskId[1] # <<>> /\ undoPreviousTime # Null /\ undoTimeout # Null
     THEN /\ timers' = timers \ {undoTimeout[1]}
          /\ tasks' = [i \in DOMAIN tasks |->
                         IF tasks[i].id = undoTaskId[1]
                         THEN [tasks[i] EXCEPT
                                 !.lastCompleted = undoPreviousTime[1]]
                         ELSE tasks[i]]
          /\ stored' = IF UndoStorageKey = STORAGE_KEY THEN tasks' ELSE stored
          /\ undoTaskId' = Null
          /\ undoPreviousTime' = Null
          /\ undoTimeout' = Null
     ELSE UNCHANGED <<tasks, stored, undoVars>>
  /\ UNCHANGED <<currentDate, now, tz, shareVars>>

\* Dashboard.tsx handleAdjustTime: the - and + buttons of the popup
HandleAdjustTime(maxTicks) ==
  \E id \in SelectIds(tasks), delta \in {-1, 1} :
    /\ \A i \in DOMAIN tasks :
         tasks[i].id = id =>
           /\ tasks[i].lastCompleted + delta * TicksPerDay
                >= FirstTick - MaxShiftDays * TicksPerDay
           /\ tasks[i].lastCompleted + delta * TicksPerDay
                <= FirstTick + maxTicks + MaxShiftDays * TicksPerDay
    /\ tasks' = adjustTaskTime(tasks, id, delta)
    /\ stored' = tasks'
    /\ UNCHANGED <<currentDate, now, tz, undoVars, shareVars>>

\* store.ts checkDayChange, called every 60 s
\* faulty variant: the check sees the new day and leaves the marker alone
CheckDayChangeKeepsMarker ==
  /\ tasks' = tasks
  /\ currentDate' = currentDate
  /\ UNCHANGED <<stored, now, tz, undoVars, shareVars>>

CheckDayChange ==
  LET today == getDateString(now)
  IN  /\ tasks' = tasks
      /\ currentDate' = IF currentDate # today THEN today ELSE currentDate
      /\ UNCHANGED <<stored, now, tz, undoVars, shareVars>>

\* app.tsx: the page is loaded with a ?tasks= parameter. The store module
\* is initialised from localStorage (loadTasks, getDateString), the
\* components mount with their initial state, no timer of the previous page
\* survives, and the mount effect imports the parameter
ImportFromUrl(maxTasks) ==
  \E decoded \in DecodedInputs :
    LET loaded == stored
        r == mergeImported(loaded, decoded)
    IN  /\ Len(r.tasks) <= maxTasks
        /\ tasks' = r.tasks
        /\ stored' = IF r.saved THEN r.tasks ELSE stored
        /\ currentDate' = getDateString(now)
        /\ undoTaskId' = Null
        /\ undoPreviousTime' = Null
        /\ undoTimeout' = Null
        /\ timers' = {}
        /\ UNCHANGED <<now, tz, shareVars>>

\* the same page load, the parameter being any text: an exported list or
\* one of the texts that carry no task list
ImportAnyFromUrl(maxTasks) ==
  \E decoded \in DecodedInputs \cup {c.decoded : c \in MalformedCases} :
    LET loaded == stored
        r == mergeImported(loaded, decoded)
    IN  /\ Len(r.tasks) <= maxTasks
        /\ tasks' = r.tasks
        /\ stored' = IF r.saved THEN r.tasks ELSE stored
        /\ currentDate' = getDateString(now)
        /\ undoTaskId' = Null
        /\ undoPreviousTime' = Null
        /\ undoTimeout' = Null
        /\ timers' = {}
        /\ UNCHANGED <<now, tz, shareVars>>

\* ---- Dashboard.tsx, the render pass: tasks.value.map over the cards. Each
\* call of getDaysRemaining, getDaysOverdue and getDueDate reads the clock
\* for itself, and the clock runs on between the calls. A pass runs to its
\* end before any handler runs; render.reads keeps the clock readings made.
renderVars == <<tasks, stored, currentDate, now, tz, undoVars, clipboard,
                peerImport, display>>

\* no pass is under way (handlers run only then)
NotRendering == render = RenderIdle

RenderStart ==
  /\ NotRendering
  /\ render' = [pc |-> IF Len(tasks) = 0 THEN "done" ELSE "remaining",
                i |-> 1, today |-> Null, reads |-> {}, shown |-> <<>>]
  /\ UNCHANGED renderVars

\* const daysRemaining = getDaysRemaining(task)
RenderDaysRemaining ==
  /\ render.pc = "remaining"
  /\ LET daysRemaining == getDaysRemaining(tasks[render.i], now)
     IN  render' = [render EXCEPT
           !.pc = IF daysRemaining <= 0 THEN "overdue" ELSE "today",
           !.reads = @ \cup {now},
           !.shown = Append(@, [daysRemaining |-> daysRemaining,
                                daysOverdue |-> Null,
                                dueDate |-> Null])]
  /\ UNCHANGED renderVars

\* t.formatOverdueTime(getDaysOverdue(task))
RenderDaysOverdue ==
  /\ render.pc = "overdue"
  /\ render' = [render EXCEPT
       !.pc = "today",
       !.reads = @ \cup {now},
       !.shown[render.i].daysOverdue =
          Some(getDaysOverdue(tasks[render.i], now))]
  /\ UNCHANGED renderVars

\* formatDueDate(task): getDueDate makes `today` from new Date() ...
RenderDueDateToday ==
  /\ render.pc = "today"
  /\ render' = [render EXCEPT !.pc = "due", !.today = Some(now),
                              !.reads = @ \cup {now}]
  /\ UNCHANGED renderVars

\* ... and then calls getDaysRemaining; the card is done
RenderDueDate ==
  /\ render.pc = "due"
  /\ render' = [render EXCEPT
       !.pc = IF render.i = Len(tasks) THEN "done" ELSE "remaining",
       !.i = IF render.i = Len(tasks) THEN @ ELSE @ + 1,
       !.today = Null,
       !.reads = @ \cup {now},
       !.shown[render.i].dueDate =
          Some(getDueDateAt(tasks[render.i], render.today[1], now, tz))]
  /\ UNCHANGED renderVars

\* the pass returns: the cards are on the screen, handlers may run again
RenderCommit ==
  /\ render.pc = "done"
  /\ render' = RenderIdle
  /\ UNCHANGED renderVars

\* Settings.tsx handleCopyMagicLink
HandleCopyMagicLink ==
  LET link == generateMagicLink(tasks)
  IN  /\ clipboard' = IF link # <<>> THEN link ELSE clipboard
      /\ UNCHANGED <<tasks, stored, currentDate, now, tz, undoVars, peerImport,
                     render, display>>

\* app.tsx, the effect run on mount, in a browser whose store is empty and
\* that was given the link of the clipboard
OpenLinkInEmptyStore ==
  /\ clipboard # <<>>
  /\ LET tasksParam == urlTasksParam(clipboard)
     IN  peerImport' = IF tasksParam # Null /\ tasksParam[1] # <<>>
                       THEN Some(importTasksFromLink(<<>>, tasksParam[1]))
                       ELSE peerImport
  /\ UNCHANGED <<tasks, stored, currentDate, now, tz, undoVars, clipboard,
                 render, display>>

Next ==
  \/ Tick(MaxTicks)
  \/ HandleAddTask(MaxTasks)
  \/ HandleConfirmDelete
  \/ MoveTaskUp
  \/ MoveTaskDown
  \/ HandleCompleteTask
  \/ HandleUndo
  \/ HandleUndoDismiss
  \/ UndoTimerFires
  \/ CheckDayChange
  \/ ImportFromUrl(MaxTasks)

\* the task list and the dashboard over a short time
Spec == Init /\ [][Next]_vars

\* a single task followed over several days, with the day adjustments
NextDays ==
  \/ Tick(MaxDayTicks)
  \/ HandleAddTask(1)
  \/ HandleConfirmDelete
  \/ HandleCompleteTask
  \/ HandleUndo
  \/ HandleUndoDismiss
  \/ UndoTimerFires
  \/ HandleAdjustTime(MaxDayTicks)
  \/ CheckDayChange

SpecDays == Init /\ [][NextDays]_vars

\* bounds of the specification of the render pass
MaxRenderTicks == 2

NextRender ==
  \/ Tick(MaxRenderTicks)
  \/ NotRendering /\ HandleAddTask(MaxTasks)
  \/ NotRendering /\ HandleCompleteTask
  \/ RenderStart
  \/ RenderDaysRemaining
  \/ RenderDaysOverdue
  \/ RenderDueDateToday
  \/ RenderDueDate
  \/ RenderCommit

\* the dashboard rendering its cards while the clock runs
SpecRender == Init /\ [][NextRender]_vars

\* ---- store.ts loadTasks: the item of localStorage (Null when there is
\* none) is parsed and returned as it is; an empty or unparsable item
\* gives the empty list. A record is read field by field, as toTask does.
loadTasks(item) ==
  IF item = Null \/ item[1] = <<>> THEN <<>>
  ELSE LET parsed == jsonParse(item[1])
       IN  IF ~parsed.ok THEN <<>>
           ELSE IF parsed.v.t = "arr"
           THEN [i \in DOMAIN parsed.v.a |-> toTask(parsed.v.a[i])]
           ELSE jsValue(parsed.v)

\* the item saveTasks wrote for a list: JSON.stringify(tasks)
storedItem(ts) == Some(stringify(ts))

\* records an older version of the page saved: createdAt and
\* initialDaysOffset may be missing
LegacyTasks ==
  [id : {<<97>>},
   name : {<<97>>},
   intervalDays : 1..MaxInterval,
   lastCompleted : {FirstTick - 1},
   createdAt : {Null, Some(FirstTick - 2)},
   initialDaysOffset : {Null, Some(0)}]
LegacySeconds ==
  [id : {<<98>>},
   name : {<<98>>},
   intervalDays : {1},
   lastCompleted : {FirstTick},
   createdAt : {Null, Some(FirstTick)},
   initialDaysOffset : {Null, Some(1)}]
LegacyLists ==
  {<<>>} \cup {<<t>> : t \in LegacyTasks}
         \cup {<<t, u>> : t \in LegacyTasks, u \in LegacySeconds}

\* the page opens on a store an older version may have written
InitLoad ==
  /\ stored \in LegacyLists
  /\ tasks = loadTasks(storedItem(stored))
  /\ tz \in TZOffsets
  /\ now = FirstTick
  /\ currentDate = getDateString(now)
  /\ undoTaskId = Null
  /\ undoPreviousTime = Null
  /\ undoTimeout = Null
  /\ timers = {}
  /\ clipboard = <<>>
  /\ peerImport = Null
  /\ render = RenderIdle
  /\ display = NoDisplay

\* the page is loaded again: the module is initialised from localStorage and
\* no state or timer of the previous page survives
LoadPage ==
  /\ tasks' = loadTasks(storedItem(stored))
  /\ currentDate' = getDateString(now)
  /\ undoTaskId' = Null
  /\ undoPreviousTime' = Null
  /\ undoTimeout' = Null
  /\ timers' = {}
  /\ UNCHANGED <<stored, now, tz, shareVars>>

NextLoad ==
  \/ Tick(MaxTicks)
  \/ LoadPage
  \/ HandleConfirmDelete
  \/ MoveTaskUp
  \/ HandleCompleteTask

SpecLoad == InitLoad /\ [][NextLoad]_vars

\* ---- reordering a longer list: tasks added one after another, then moved
MaxMoveTasks == 4
MoveIds == {<<96 + k>> : k \in 1..MaxMoveTasks}
MoveTask(id) ==
  [id |-> id, name |-> id, intervalDays |-> 1 + (idRank(id) % MaxInterval),
   lastCompleted |-> FirstTick - (idRank(id) % 2),
   createdAt |-> Some(FirstTick - 1), initialDaysOffset |-> Some(0)]
\* the tasks of a set of ids in the order of their ids
RECURSIVE MoveList(_)
MoveList(ids) ==
  IF ids = {} THEN <<>>
  ELSE LET last == CHOOSE id \in ids : \A o \in ids : idRank(o) <= idRank(id)
       IN  Append(MoveList(ids \ {last}), MoveTask(last))

InitMove ==
  /\ tasks \in {MoveList(ids) : ids \in SUBSET MoveIds}
  /\ stored = tasks
  /\ tz \in TZOffsets
  /\ now = FirstTick
  /\ currentDate = getDateString(now)
  /\ undoTaskId = Null
  /\ undoPreviousTime = Null
  /\ undoTimeout = Null
  /\ timers = {}
  /\ clipboard = <<>>
  /\ peerImport = Null
  /\ render = RenderIdle
  /\ display = NoDisplay

NextMove ==
  \/ MoveTaskUp
  \/ MoveTaskDown

SpecMove == InitMove /\ [][NextMove]_vars

\* ---- the formatters applied to a count of days in either language
MaxFormatDays == 70
LanguageIds == {"en", "ru"}

InitFormat ==
  /\ tasks = <<>>
  /\ stored = <<>>
  /\ tz = 0
  /\ now = FirstTick
  /\ currentDate = getDateString(now)
  /\ undoTaskId = Null
  /\ undoPreviousTime = Null
  /\ undoTimeout = Null
  /\ timers = {}
  /\ clipboard = <<>>
  /\ peerImport = Null
  /\ render = RenderIdle
  /\ display \in [language : LanguageIds, days : 0..MaxFormatDays,
                   kind : {"none"}, text : {<<>>}]

formatVars == <<tasks, stored, currentDate, now, tz, undoVars, clipboard,
                peerImport, render>>

\* Dashboard.tsx: t.formatOverdueTime(getDaysOverdue(task)) on an overdue card
ShowOverdueTime ==
  /\ display' = [display EXCEPT
                   !.kind = "formatOverdueTime",
                   !.text = formatOverdueTime(display.language, display.days)]
  /\ UNCHANGED formatVars

\* Dashboard.tsx: t.formatDays(daysRemaining) on a card that is not overdue
ShowDays ==
  /\ display.days > 0
  /\ display' = [display EXCEPT
                   !.kind = "formatDays",
                   !.text = formatDays(display.language, display.days)]
  /\ UNCHANGED formatVars

\* Settings.tsx: t.everyDays(task.intervalDays)
ShowEveryDays ==
  /\ display.days > 0
  /\ display' = [display EXCEPT
                   !.kind = "everyDays",
                   !.text = everyDays(display.language, display.days)]
  /\ UNCHANGED formatVars

NextFormat ==
  \/ ShowOverdueTime
  \/ ShowDays
  \/ ShowEveryDays

SpecFormat == InitFormat /\ [][NextFormat]_vars

\* bounds of the specification of the day check: two rollovers
MaxClockTicks == 4

NextDayCheck ==
  \/ Tick(MaxClockTicks)
  \/ HandleAddTask(MaxTasks)
  \/ MoveTaskUp
  \/ MoveTaskDown
  \/ CheckDayChange

\* setInterval(checkDayChange, 60000) runs for as long as the page lives: a
\* check that has something to do is not put off for ever
SpecDayCheck == Init /\ [][NextDayCheck]_vars /\ WF_vars(CheckDayChange)

\* the same page load, the parameter being an exported list or the link
\* that repeats an id
ImportRepeatedFromUrl(maxTasks) ==
  \E decoded \in DecodedInputs \cup {RepeatedIdDecoded} :
    LET loaded == stored
        r == mergeImported(loaded, decoded)
    IN  /\ Len(r.tasks) <= maxTasks
        /\ tasks' = r.tasks
        /\ stored' = IF r.saved THEN r.tasks ELSE stored
        /\ currentDate' = getDateString(now)
        /\ undoTaskId' = Null
        /\ undoPreviousTime' = Null
        /\ undoTimeout' = Null
        /\ timers' = {}
        /\ UNCHANGED <<now, tz, shareVars>>

NextRepeat ==
  \/ Tick(MaxTicks)
  \/ HandleAddTask(MaxTasks)
  \/ HandleConfirmDelete
  \/ MoveTaskUp
  \/ MoveTaskDown
  \/ HandleCompleteTask
  \/ HandleUndo
  \/ UndoTimerFires
  \/ ImportRepeatedFromUrl(MaxTasks)

\* the store and links of any origin
SpecRepeat == Init /\ [][NextRepeat]_vars

NextImport ==
  \/ Tick(MaxTicks)
  \/ HandleAddTask(MaxTasks)
  \/ HandleConfirmDelete
  \/ MoveTaskUp
  \/ MoveTaskDown
  \/ HandleCompleteTask
  \/ HandleUndo
  \/ HandleUndoDismiss
  \/ UndoTimerFires
  \/ CheckDayChange
  \/ ImportAnyFromUrl(MaxTasks)

\* the store and the dashboard, the page being opened with any ?tasks= text
SpecImport == Init /\ [][NextImport]_vars

\* tasks a store can hold, with the strings and the optional fields that the
\* link encoding has to carry: quotes, backslash, "+", non-ASCII and astral
\* code points, absent createdAt and initialDaysOffset
LinkNames == {<<97>>, <<34, 92>>, <<233>>, <<8364, 32, 43>>, <<128512, 62, 63>>}
LinkTasks ==
  [id : {<<97>>, <<45, 95>>},
   name : LinkNames,
   intervalDays : {1, 30},
   lastCompleted : {FirstTick},
   createdAt : {Null, Some(FirstTick - 2)},
   initialDaysOffset : {Null, Some(0)}]
LinkSeconds ==
  [id : {<<98>>},
   name : {<<62, 62, 62>>, <<1076>>},
   intervalDays : {7},
   lastCompleted : {FirstTick - 1},
   createdAt : {Some(FirstTick - 1)},
   initialDaysOffset : {Some(7), Some(12)}]
LinkLists ==
  {<<t>> : t \in LinkTasks} \cup {<<t, u>> : t \in LinkTasks, u \in LinkSeconds}

InitLink ==
  /\ tasks \in LinkLists
  /\ stored = tasks
  /\ tz = 0
  /\ now = FirstTick
  /\ currentDate = getDateString(now)
  /\ undoTaskId = Null
  /\ undoPreviousTime = Null
  /\ undoTimeout = Null
  /\ timers = {}
  /\ clipboard = <<>>
  /\ peerImport = Null
  /\ render = RenderIdle
  /\ display = NoDisplay

NextLink ==
  \/ HandleCopyMagicLink
  \/ OpenLinkInEmptyStore

\* a stored list is exported as a link and the link is opened elsewhere
SpecLink == InitLink /\ [][NextLink]_vars


\* ------------------------------------------------------------- properties
\* the number of the UTC day of a clock reading, and of the user's local day
utcDay(clock) == clock \div TicksPerDay
localDay(clock, zone) == (clock + zone) \div TicksPerDay

\* initialDaysOffset, or intervalDays when it is absent
offsetOf(task) ==
  IF task.initialDaysOffset = Null THEN task.intervalDays
  ELSE task.initialDaysOffset[1]

\* the step is a completion of task id by handleCompleteTask (the branch
\* that calls completeTask)
isCompletionOf(id) == undoTaskId' = Some(id) /\ undoTaskId # Some(id)

\* C1: a task in its first cycle, created on calendar day D with
\* initialDaysOffset k (intervalDays when absent), has k days remaining on
\* day D, 0 on day D + k and -1 on day D + k + 1. The calendar day of an
\* instant is the date the engine derives for it (getDateString,
\* timestampToDateString), which is its UTC date.
C1_FirstCycleCountdown ==
  \A i \in DOMAIN tasks :
    LET task == tasks[i]
        k == offsetOf(task)
        D == utcDay(createdAtOf(task))
        today == utcDay(now)
        remaining == getDaysRemaining(task, now)
    IN  isFirstCycle(task) =>
          /\ today = D => remaining = k
          /\ today = D + k => remaining = 0
          /\ today = D + k + 1 => remaining = -1

\* a first-cycle task whose offset differs from its interval, one day past
\* its first due day
C1_Witness ==
  \E i \in DOMAIN tasks :
    /\ isFirstCycle(tasks[i])
    /\ tasks[i].initialDaysOffset # Null
    /\ offsetOf(tasks[i]) # tasks[i].intervalDays
    /\ utcDay(now) = utcDay(createdAtOf(tasks[i])) + offsetOf(tasks[i]) + 1
    /\ getDaysRemaining(tasks[i], now) = -1

\* C2: a task in steady state with intervalDays n, last completed on calendar
\* day D, has 0 days remaining on day D + n, and on every day the value is
\* n minus the number of calendar days elapsed since D: one less per day,
\* whatever the times of day of lastCompleted and of the evaluation.
\* Calendar days are the engine's dates, as in C1.
C2_SteadyCountdown ==
  \A i \in DOMAIN tasks :
    LET task == tasks[i]
        D == utcDay(task.lastCompleted)
        today == utcDay(now)
        remaining == getDaysRemaining(task, now)
    IN  ~isFirstCycle(task) =>
          /\ today = D + task.intervalDays => remaining = 0
          /\ remaining = task.intervalDays - (today - D)

\* a steady task on its due day, completed and evaluated at different times
\* of day
C2_Witness ==
  \E i \in DOMAIN tasks :
    /\ ~isFirstCycle(tasks[i])
    /\ utcDay(now) = utcDay(tasks[i].lastCompleted) + tasks[i].intervalDays
    /\ tasks[i].lastCompleted % TicksPerDay # now % TicksPerDay
    /\ tasks[i].intervalDays = MaxInterval
    /\ getDaysRemaining(tasks[i], now) = 0

\* C3: days-remaining depends only on the user's local calendar date: while
\* the local day stays the same and the task is not changed, getDaysRemaining
\* keeps its value (it changes only when local midnight is crossed).
C3_LocalDayOnly ==
  [][(localDay(now', tz') = localDay(now, tz) /\ tasks' = tasks) =>
       \A i \in DOMAIN tasks :
         getDaysRemaining(tasks[i], now') = getDaysRemaining(tasks[i], now)]_vars

C5_OverdueNonNegative ==
  \A i \in DOMAIN tasks :
    getDaysRemaining(tasks[i], now) <= 0 => getDaysOverdue(tasks[i], now) >= 0

\* C6: the scenario, for every interval n and offset k: k days after its
\* creation a task has 0 days remaining and is due today; a completion on
\* that day leaves it in steady state; n days after the completion it has 0
\* days remaining again, and n + 1 days after it -1, being 1 day overdue.
C6_Scenario ==
  [][\A i \in DOMAIN tasks :
       LET task == tasks[i]
           today == utcDay(now)
           dueDay == utcDay(createdAtOf(task)) + offsetOf(task)
           D == utcDay(task.lastCompleted)
       IN  /\ (isFirstCycle(task) /\ today = dueDay) =>
                /\ getDaysRemaining(task, now) = 0
                /\ getDueDate(task, now, tz) = localDate(now, tz)
           /\ (isFirstCycle(task) /\ today = dueDay
                 /\ isCompletionOf(task.id)) =>
                \A j \in DOMAIN tasks' :
                  tasks'[j].id = task.id => ~isFirstCycle(tasks'[j])
           /\ (~isFirstCycle(task) /\ today = D + task.intervalDays) =>
                getDaysRemaining(task, now) = 0
           /\ (~isFirstCycle(task) /\ today = D + task.intervalDays + 1) =>
                /\ getDaysRemaining(task, now) = -1
                /\ getDaysOverdue(task, now) = 1]_vars

\* C7: getDueDate is the user's local date of today plus
\* max(getDaysRemaining, 0) days: never before today, and exactly today for a
\* task that is due or overdue.
C7_DueDateNotBeforeToday ==
  \A i \in DOMAIN tasks :
    LET remaining == getDaysRemaining(tasks[i], now)
        due == DaysFromCivil(getDueDate(tasks[i], now, tz))
        today == localDay(now, tz)
    IN  /\ due >= today
        /\ due = today + (IF remaining > 0 THEN remaining ELSE 0)
        /\ remaining <= 0 => getDueDate(tasks[i], now, tz) = localDate(now, tz)

\* an overdue task, seen by a user whose local date is not the UTC date
C7_Witness ==
  \E i \in DOMAIN tasks :
    /\ getDaysRemaining(tasks[i], now) < 0
    /\ localDate(now, tz) # getDateString(now)
    /\ getDueDate(tasks[i], now, tz) = localDate(now, tz)

\* C8: a completion of task id changes lastCompleted of that task, to now,
\* and nothing else: its other fields, every other task, the length and the
\* order of the list stay as they were.
C8_CompleteFrame ==
  [][\A id \in SelectIds(tasks) :
       isCompletionOf(id) =>
         /\ Len(tasks') = Len(tasks)
         /\ \A i \in DOMAIN tasks :
              /\ tasks'[i].id = tasks[i].id
              /\ tasks'[i].name = tasks[i].name
              /\ tasks'[i].intervalDays = tasks[i].intervalDays
              /\ tasks'[i].createdAt = tasks[i].createdAt
              /\ tasks'[i].initialDaysOffset = tasks[i].initialDaysOffset
              /\ tasks'[i].lastCompleted =
                   IF tasks[i].id = id THEN now
                   ELSE tasks[i].lastCompleted]_vars

\* the second of two tasks has just been completed, later than both were
\* last completed
C8_Witness ==
  /\ Len(tasks) = 2
  /\ undoTaskId = Some(tasks[2].id)
  /\ tasks[2].lastCompleted = now
  /\ tasks[1].lastCompleted < now
  /\ undoPreviousTime # Null
  /\ undoPreviousTime[1] < now

\* the payloads of the links, each with what importTasksFromLink decodes
\* from its encoding
PayloadCases ==
  {[payload |-> p,
    decoded |-> decodeImported(encodeUnicodeToBase64(stringify(p)))] :
     p \in PayloadLists}

\* C9: importing a payload into any store the program reaches keeps every
\* task of the store as it is, in place, appends exactly the payload's tasks
\* whose ids are not in the store, in payload order, and returns true exactly
\* when it appended one.
C9_ImportMergesById ==
  \A c \in PayloadCases :
    LET r == mergeImported(tasks, c.decoded)
        fresh == SelectSeq(c.payload, LAMBDA t : t.id \notin SelectIds(tasks))
    IN  /\ c.decoded.ok
        /\ SubSeq(r.tasks, 1, Len(tasks)) = tasks
        /\ r.tasks = tasks \o fresh
        /\ r.result = (Len(fresh) > 0)
        /\ r.saved = r.result

\* the store held a task "a" made with the form; a link carrying another
\* task "a" and a task "c" was imported: "a" is as it was, "c" was appended
C9_Witness ==
  /\ Len(tasks) = 2
  /\ tasks[1].id = <<97>>
  /\ tasks[1].name = <<97>>
  /\ tasks[1].createdAt = Some(FirstTick)
  /\ tasks[2].id = <<99>>
  /\ tasks[2].name = <<233>>
  /\ tasks[2].initialDaysOffset = Null
  /\ stored = tasks

\* C10: the tasks parameter of the link generateMagicLink makes for a
\* non-empty list, imported into an empty store, gives the same list: same
\* order, ids, names, intervalDays, lastCompleted, createdAt and
\* initialDaysOffset.
C10_RoundTrip ==
  /\ clipboard # <<>> => urlTasksParam(clipboard) # Null
  /\ peerImport # Null =>
       /\ peerImport[1].result
       /\ peerImport[1].tasks = tasks

\* a list of two tasks went through a link: a name with an astral code point
\* and an absent createdAt, and a payload whose base64 text has "+" in it
C10_Witness ==
  /\ peerImport # Null
  /\ Len(tasks) = 2
  /\ tasks[1].name = <<128512, 62, 63>>
  /\ tasks[1].createdAt = Null
  /\ tasks[1].initialDaysOffset = Some(0)
  /\ tasks[2].name = <<62, 62, 62>>
  /\ \E i \in DOMAIN clipboard : clipboard[i] = 45

\* C11: importing a malformed parameter (the empty string that
\* generateMagicLink yields for an empty list, text that is not base64, text
\* that is not JSON, a non-array, an empty array, an array of records that
\* are not tasks) returns false, leaves the task list as it is and saves
\* nothing.
C11_MalformedRejected ==
  \A c \in MalformedCases :
    LET r == mergeImported(tasks, c.decoded)
    IN  ~r.result /\ r.tasks = tasks /\ ~r.saved

\* C12: whatever the operations so far (add through the form, import,
\* complete, undo, move, delete), every task of the list, and of the saved
\* list, has a name that is not empty and an intervalDays greater than 0.
C12_SchemaInvariant ==
  /\ \A i \in DOMAIN tasks :
       tasks[i].name # <<>> /\ tasks[i].intervalDays > 0
  /\ \A i \in DOMAIN stored :
       stored[i].name # <<>> /\ stored[i].intervalDays > 0

\* C13: at most one undo timer is pending, and it is the one the dashboard
\* holds in undoTimeout. A completion of a second task while the window of a
\* first is pending cancels the first timer, keeps the first task as its
\* completion left it, and starts one new window, for the second task.
C13_SingleUndoTimer ==
  [][/\ Cardinality(timers) <= 1 /\ Cardinality(timers') <= 1
     /\ timers' = (IF undoTimeout' = Null THEN {} ELSE {undoTimeout'[1]})
     /\ (undoTaskId' = Null) <=> (undoTimeout' = Null)
     /\ \A id \in SelectIds(tasks) :
          (isCompletionOf(id) /\ undoTaskId # Null) =>
            /\ undoTimeout[1] \notin timers'
            /\ undoTimeout' # Null /\ undoTimeout' # undoTimeout
            /\ \A i \in DOMAIN tasks :
                 tasks[i].id = undoTaskId[1] =>
                   /\ i \in DOMAIN tasks'
                   /\ tasks'[i] = tasks[i]
            /\ \A i \in DOMAIN tasks :
                 tasks[i].id = id =>
                   undoPreviousTime' = Some(tasks[i].lastCompleted)]_vars

\* the second task was completed while the window of the first was pending:
\* the timer of the first window had id 1, the pending one has id 2
C13_Witness ==
  /\ Len(tasks) = 2
  /\ undoTaskId = Some(tasks[2].id)
  /\ timers = {2}
  /\ undoTimeout = Some(2)
  /\ tasks[1].lastCompleted = FirstTick
  /\ tasks[2].lastCompleted = FirstTick + 1
  /\ tasks[1].createdAt # Some(FirstTick)

\* the undo window of task id is pending
isPendingFor(id) ==
  undoTaskId = Some(id) /\ undoPreviousTime # Null /\ undoTimeout # Null

\* C14: a completion records the lastCompleted the task had before it; while
\* the window is pending that record is kept; a click on undo then cancels
\* the pending timer, gives the task exactly that lastCompleted back (a task
\* whose first completion it was is in its first cycle again), changes no
\* other field and no other task, and saves the list.
C14_UndoRestores ==
  [][\A i \in DOMAIN tasks :
       LET id == tasks[i].id
       IN  /\ isCompletionOf(id) =>
                /\ undoPreviousTime' = Some(tasks[i].lastCompleted)
                /\ undoTimeout' # Null /\ undoTimeout'[1] \in timers'
           /\ (isPendingFor(id) /\ undoTaskId' = undoTaskId) =>
                undoPreviousTime' = undoPreviousTime
           /\ (isPendingFor(id) /\ HandleUndo) =>
                /\ undoTimeout[1] \notin timers'
                /\ undoTaskId' = Null
                /\ Len(tasks') = Len(tasks)
                /\ tasks'[i] = [tasks[i] EXCEPT
                                  !.lastCompleted = undoPreviousTime[1]]
                /\ \A j \in DOMAIN tasks :
                     tasks[j].id # id => tasks'[j] = tasks[j]
                /\ stored' = tasks'
                /\ undoPreviousTime = Some(createdAtOf(tasks[i])) =>
                     isFirstCycle(tasks'[i])]_vars

\* the window of a first completion is pending, one sample after the task
\* was made, and a click on undo puts the task back in its first cycle
C14_Witness ==
  /\ Len(tasks) = 2
  /\ isPendingFor(tasks[2].id)
  /\ tasks[2].createdAt = Some(FirstTick)
  /\ tasks[2].lastCompleted = FirstTick + 1
  /\ undoPreviousTime = Some(FirstTick)
  /\ ENABLED (HandleUndo /\ tasks' # tasks /\ isFirstCycle(tasks'[2])
                /\ stored' = tasks')

C16_StoredEqualsTasks == stored = tasks

\* two tasks, the one made second standing first, a completion undone or
\* pending: moves and completions have been saved
C16_Witness ==
  /\ Len(tasks) = 2
  /\ stored = tasks
  /\ tasks[1].createdAt = Some(FirstTick + 1)
  /\ tasks[2].createdAt = Some(FirstTick)
  /\ tasks[2].lastCompleted = FirstTick + 1

\* C17: all that a finished render pass shows (days remaining, days overdue
\* and due date of every card) was computed against one reading of the
\* clock: some instant of the pass gives every value shown.
C17_OneTodayPerRender ==
  render.pc = "done" =>
    \E clock \in render.reads \cup {now} :
      \A i \in DOMAIN render.shown :
        LET card == render.shown[i]
        IN  /\ card.daysRemaining = getDaysRemaining(tasks[i], clock)
            /\ card.daysOverdue # Null =>
                 card.daysOverdue[1] = getDaysOverdue(tasks[i], clock)
            /\ card.dueDate = Some(getDueDate(tasks[i], clock, tz))

\* C18: the day check changes no task record and no position of the list and
\* sets the marker to today's date when the two differ; no other step moves
\* the marker; and with the periodic check a marker that is behind the date
\* of the clock catches up with it, after every rollover.
C18_DayChangeDetected ==
  /\ [][ /\ CheckDayChange =>
              /\ tasks' = tasks /\ stored' = stored
              /\ currentDate' = getDateString(now)
         /\ currentDate' # currentDate =>
              /\ currentDate # getDateString(now)
              /\ currentDate' = getDateString(now)
              /\ tasks' = tasks ]_vars
  /\ (currentDate # getDateString(now)) ~> (currentDate = getDateString(now))

\* the second rollover has been seen by the check, with a list that was
\* reordered before
C18_Witness ==
  /\ now = FirstTick + 3
  /\ currentDate = getDateString(now)
  /\ currentDate # getDateString(FirstTick + 1)
  /\ Len(tasks) = 2
  /\ tasks[1].createdAt[1] > tasks[2].createdAt[1]

\* C19: once the list is loaded, every task of the in-memory list has its
\* createdAt and its initialDaysOffset defined, whatever version of the
\* page wrote the record.
C19_LoadedTasksBackfilled ==
  \A i \in DOMAIN tasks :
    tasks[i].createdAt # Null /\ tasks[i].initialDaysOffset # Null

\* C20: moveTaskUp of the first task and moveTaskDown of the last task give
\* the list as it was; for a task at any other position the task and its
\* neighbour (the one before it for up, the one after it for down) change
\* places and every other position keeps its task; a step of either button
\* changes nothing but the list and its persisted copy.
C20_MovesSwapNeighbours ==
  /\ [](\A id \in SelectIds(tasks) :
          LET i == findIndex(tasks, id) + 1
              up == moveTaskUp(tasks, id)
              down == moveTaskDown(tasks, id)
          IN  /\ i = 1 => up = tasks
              /\ i = Len(tasks) => down = tasks
              /\ i > 1 =>
                   /\ DOMAIN up = DOMAIN tasks
                   /\ up[i - 1] = tasks[i] /\ up[i] = tasks[i - 1]
                   /\ \A j \in DOMAIN tasks \ {i - 1, i} : up[j] = tasks[j]
              /\ i < Len(tasks) =>
                   /\ DOMAIN down = DOMAIN tasks
                   /\ down[i + 1] = tasks[i] /\ down[i] = tasks[i + 1]
                   /\ \A j \in DOMAIN tasks \ {i, i + 1} : down[j] = tasks[j])
  /\ [][ (MoveTaskUp \/ MoveTaskDown) =>
           /\ stored' = tasks'
           /\ UNCHANGED <<currentDate, now, tz, undoVars, shareVars>> ]_vars

\* four tasks that the two buttons have brought into the reverse of the
\* order in which they were added
C20_Witness ==
  /\ Len(tasks) = 4
  /\ \A i \in 1..3 : idRank(tasks[i].id) > idRank(tasks[i + 1].id)
  /\ stored = tasks

\* C21: addTask gives the list it was given with one task appended, whose
\* createdAt and lastCompleted are both the clock (first cycle) and whose
\* initialDaysOffset is the value entered, 0 included, or intervalDays when
\* none was entered; a step of the form that adds a task is such an
\* addTask, and it is saved.
C21_AddAppendsFirstCycle ==
  /\ [](\A name \in {trim(n) : n \in FormNames} \ {<<>>},
          intervalDays \in FormIntervals \ {0},
          initialDaysOffset \in FormOffsets :
          LET added == addTask(tasks, generateShortId(tasks), name,
                               intervalDays, initialDaysOffset, now)
              new == added[Len(added)]
          IN  /\ Len(added) = Len(tasks) + 1
              /\ SubSeq(added, 1, Len(tasks)) = tasks
              /\ new.name = name /\ new.intervalDays = intervalDays
              /\ new.createdAt = Some(now) /\ new.lastCompleted = now
              /\ isFirstCycle(new)
              /\ new.initialDaysOffset =
                   (IF initialDaysOffset = Null THEN Some(intervalDays)
                    ELSE initialDaysOffset))
  /\ [][ (HandleAddTask(MaxTasks) /\ tasks' # tasks) =>
           /\ \E name \in {trim(n) : n \in FormNames} \ {<<>>},
                 intervalDays \in FormIntervals \ {0},
                 initialDaysOffset \in FormOffsets :
                tasks' = addTask(tasks, generateShortId(tasks), name,
                                 intervalDays, initialDaysOffset, now)
           /\ stored' = tasks' ]_vars

\* a task with interval 2 and an entered offset of 0 has just been added
\* after another task
C21_Witness ==
  /\ Len(tasks) = 2
  /\ tasks[2].intervalDays = 2
  /\ tasks[2].initialDaysOffset = Some(0)
  /\ tasks[2].createdAt = Some(now)
  /\ isFirstCycle(tasks[2])
  /\ tasks[1].createdAt # Some(now)
  /\ stored = tasks

\* C22: a day adjustment moves lastCompleted by whole days, leaves createdAt
\* as it is and leaves a first-cycle task in its first cycle; a task that
\* is in its first cycle before a step and out of it after the step has
\* been completed by that step.
C22_AdjustKeepsFirstCycle ==
  [][ /\ HandleAdjustTime(MaxDayTicks) =>
           \A i \in DOMAIN tasks :
             /\ tasks'[i].createdAt = tasks[i].createdAt
             /\ (tasks'[i].lastCompleted - tasks[i].lastCompleted)
                  % TicksPerDay = 0
             /\ isFirstCycle(tasks[i]) => isFirstCycle(tasks'[i])
      /\ \A id \in SelectIds(tasks) \cap SelectIds(tasks') :
           (/\ isFirstCycle(tasks[findIndex(tasks, id) + 1])
            /\ ~isFirstCycle(tasks'[findIndex(tasks', id) + 1]))
             => isCompletionOf(id) ]_vars

\* the English text of a count with its unit word: "1 day", "3 weeks"
enCount(n, word) == toString(n) \o word \o (IF n = 1 THEN <<>> ELSE EnWords.pluralS)

\* the tiers of the English overdue text below a month: "today", days,
\* whole weeks, or weeks and days in short form
enOverdueBelowMonth(n) ==
  IF n = 0 THEN EnWords.today
  ELSE IF n <= 6 THEN enCount(n, EnWords.day) \o EnWords.ago
  ELSE IF n % 7 = 0 THEN enCount(n \div 7, EnWords.week) \o EnWords.ago
  ELSE toString(n \div 7) \o EnWords.w \o Space \o toString(n % 7) \o EnWords.d \o EnWords.ago

\* C23 as stated: the English overdue text of n >= 0 is "today" for 0,
\* "{n} day(s) ago" for 1..6, weeks and remainder days for 7..29, and from
\* 30 on months of 30 days with the remainder given in weeks.
C23_OverdueRemainderInWeeks ==
  (display.kind = "formatOverdueTime" /\ display.language = "en") =>
    LET n == display.days
    IN  display.text =
          IF n < 30 THEN enOverdueBelowMonth(n)
          ELSE IF n % 30 = 0 THEN enCount(n \div 30, EnWords.month) \o EnWords.ago
          ELSE toString(n \div 30) \o EnWords.mo \o Space
                 \o toString((n % 30) \div 7) \o EnWords.w \o EnWords.ago

\* C23 amended: as above, but from 30 on a remainder of 1..6 days is given
\* in days ("1mo 3d ago"), and a remainder of 7 or more in whole weeks.
C23_OverdueTiers ==
  (display.kind = "formatOverdueTime" /\ display.language = "en") =>
    LET n == display.days
        r == n % 30
    IN  display.text =
          IF n < 30 THEN enOverdueBelowMonth(n)
          ELSE IF r = 0 THEN enCount(n \div 30, EnWords.month) \o EnWords.ago
          ELSE IF r <= 6
          THEN toString(n \div 30) \o EnWords.mo \o Space \o toString(r) \o EnWords.d
                 \o EnWords.ago
          ELSE toString(n \div 30) \o EnWords.mo \o Space \o toString(r \div 7)
                 \o EnWords.w \o EnWords.ago

\* 33 days overdue are shown as "1mo 3d ago"
C23_Witness ==
  /\ display.kind = "formatOverdueTime" /\ display.language = "en"
  /\ display.days = 33
  /\ display.text = <<49, 109, 111, 32, 51, 100, 32, 97, 103, 111>>

\* the form of a Russian unit word for a count, by n % 10 alone:
\* forms = <<singular, paucal, plural>>
ruWord(forms, n) ==
  IF n % 10 = 1 THEN forms[1]
  ELSE IF n % 10 \in 2..4 THEN forms[2]
  ELSE forms[3]

\* C24: wherever a Russian formatter writes a unit word in full, the word is
\* the singular, paucal or plural form by the class of the count's n % 10
\* (1; 2..4; 0 and 5..9): in everyDays, in formatDays (days from 2 to 6,
\* whole weeks) and in the tiers of formatOverdueTime (days, whole weeks,
\* whole months).
C24_RussianPluralClass ==
  display.language = "ru" =>
    LET n == display.days
        dayWord == ruWord(<<RuWords.den, RuWords.dnya, RuWords.dney>>, n)
    IN  /\ display.kind = "everyDays" =>
             display.text = RuWords.every \o toString(n) \o Space \o dayWord
        /\ (display.kind = "formatDays" /\ n \in 2..6) =>
             display.text = toString(n) \o Space \o dayWord
        /\ (display.kind = "formatDays" /\ n >= 7 /\ n % 7 = 0) =>
             display.text =
               toString(n \div 7) \o Space
                 \o ruWord(<<RuWords.nedelya, RuWords.nedeli, RuWords.nedel>>, n \div 7)
        /\ (display.kind = "formatOverdueTime" /\ n \in 1..6) =>
             display.text = toString(n) \o Space \o dayWord \o RuWords.ago
        /\ (display.kind = "formatOverdueTime" /\ n \in 7..29 /\ n % 7 = 0) =>
             display.text =
               toString(n \div 7) \o Space
                 \o ruWord(<<RuWords.nedelyu, RuWords.nedeli, RuWords.nedel>>, n \div 7)
                 \o RuWords.ago
        /\ (display.kind = "formatOverdueTime" /\ n >= 30 /\ n % 30 = 0) =>
             display.text =
               toString(n \div 30) \o Space
                 \o ruWord(<<RuWords.mesyats, RuWords.mesyatsa, RuWords.mesyatsev>>, n \div 30)
                 \o RuWords.ago

\* C25: the English formatDays of days >= 1 is "1 day" for 1, "{days} days"
\* for 2..6, "{days/7}w" for a multiple of 7 and "{days div 7}w {days mod
\* 7}d" for any other count from 8 on.
C25_EnglishFormatDays ==
  (display.kind = "formatDays" /\ display.language = "en") =>
    LET days == display.days
    IN  /\ days >= 1
        /\ display.text =
             IF days = 1 THEN <<49, 32, 100, 97, 121>>
             ELSE IF days <= 6 THEN toString(days) \o <<32, 100, 97, 121, 115>>
             ELSE IF days % 7 = 0 THEN toString(days \div 7) \o <<119>>
             ELSE toString(days \div 7) \o <<119, 32>>
                    \o toString(days % 7) \o <<100>>

\* 7 days are shown as "1w"
C25_Witness ==
  /\ display.kind = "formatDays" /\ display.language = "en"
  /\ display.days = 7
  /\ display.text = <<49, 119>>

\* C26: no two positions of the task list hold the same id, in memory and
\* in the persisted list.
C26_UniqueIds ==
  /\ \A i, j \in DOMAIN tasks : tasks[i].id = tasks[j].id => i = j
  /\ \A i, j \in DOMAIN stored : stored[i].id = stored[j].id => i = j

\* C27: an undo works on the list as it is when the undo is clicked: the
\* list keeps its length, its ids and their order, every task with another
\* id keeps its record, the task with the undone id changes in lastCompleted
\* at most, and the persisted list is the list; so whatever was added,
\* deleted or moved since the completion stays.
C27_UndoKeepsLaterChanges ==
  [][ HandleUndo =>
        /\ Len(tasks') = Len(tasks)
        /\ \A i \in DOMAIN tasks :
             /\ tasks'[i].id = tasks[i].id
             /\ tasks[i].id # undoTaskId[1] => tasks'[i] = tasks[i]
             /\ tasks'[i] =
                  [tasks[i] EXCEPT !.lastCompleted = tasks'[i].lastCompleted]
        /\ stored' = tasks' ]_vars

\* the window of the second task is pending, a task as young as the
\* completion stands before it, and undo would restore the second task and
\* keep the first
C27_Witness ==
  /\ Len(tasks) = 2
  /\ isPendingFor(tasks[2].id)
  /\ tasks[1].createdAt = Some(tasks[2].lastCompleted)
  /\ tasks[2].createdAt[1] < tasks[1].createdAt[1]
  /\ ENABLED (HandleUndo /\ tasks'[1] = tasks[1] /\ tasks'[2] # tasks[2]
                /\ stored' = tasks')

\* C28: a click on a card never changes the task whose undo window is
\* pending; a click that completes no other task (the click on that very
\* card) leaves the list and its persisted copy as they are, removes the
\* pending timer and clears the undo state.
C28_SecondClickDismisses ==
  [][ (HandleCompleteTask /\ undoTaskId # Null) =>
        /\ \A i \in DOMAIN tasks :
             tasks[i].id = undoTaskId[1] =>
               (i \in DOMAIN tasks' /\ tasks'[i] = tasks[i])
        /\ (\A id \in SelectIds(tasks) : ~isCompletionOf(id)) =>
             /\ tasks' = tasks /\ stored' = stored
             /\ timers' = {}
             /\ undoTaskId' = Null
             /\ undoPreviousTime' = Null
             /\ undoTimeout' = Null ]_vars

\* the window of a task is pending, the clock has moved on since its
\* completion, and a click on its card is possible that changes no task
C28_Witness ==
  /\ Len(tasks) = 2
  /\ isPendingFor(tasks[1].id)
  /\ tasks[1].lastCompleted < now
  /\ timers # {}
  /\ ENABLED (HandleCompleteTask /\ tasks' = tasks /\ undoTaskId' = Null
                /\ timers' = {})

\* what importTasksFromLink decodes from every link of the model: exported
\* lists, texts that carry no task list, records that are not tasks, and
\* the list that repeats an id
AllDecodedInputs ==
  DecodedInputs \cup {c.decoded : c \in MalformedCases}
    \cup {RepeatedIdDecoded}

\* C29: for every list and every payload, importing the payload a second
\* time returns false and leaves the list the first import gave, and saves
\* nothing.
C29_ImportIdempotent ==
  \A decoded \in AllDecodedInputs :
    LET first == mergeImported(tasks, decoded)
        second == mergeImported(first.tasks, decoded)
    IN  ~second.result /\ second.tasks = first.tasks /\ ~second.saved

\* the store holds the two tasks of a link it imported, and importing the
\* link again is refused
C29_Witness ==
  \E decoded \in DecodedInputs :
    /\ decoded.ok /\ Len(decoded.newTasks) = 2
    /\ tasks = decoded.newTasks
    /\ stored = tasks
    /\ ~mergeImported(tasks, decoded).result

\* C30: after any sequence of moves the list holds the records of the tasks
\* that were added, each once and unmodified; for every task, either move
\* gives a list of the same records; and moving a task that is not first
\* up and then down gives the list back.
C30_MovesPermute ==
  /\ Len(tasks) = Cardinality(SelectIds(tasks))
  /\ Range(tasks) = {MoveTask(id) : id \in SelectIds(tasks)}
  /\ \A id \in SelectIds(tasks) :
       LET up == moveTaskUp(tasks, id)
           down == moveTaskDown(tasks, id)
       IN  /\ Len(up) = Len(tasks) /\ Range(up) = Range(tasks)
           /\ Len(down) = Len(tasks) /\ Range(down) = Range(tasks)
           /\ findIndex(tasks, id) > 0 => moveTaskDown(up, id) = tasks

\* four tasks out of the order in which they were added, the third of
\* which can go up and come back
C30_Witness ==
  /\ Len(tasks) = 4
  /\ idRank(tasks[1].id) > idRank(tasks[4].id)
  /\ moveTaskUp(tasks, tasks[3].id) # tasks
  /\ moveTaskDown(moveTaskUp(tasks, tasks[3].id), tasks[3].id) = tasks

====
